---- MODULE Spec2Model ----
(***************************************************************************)
(* A model of the pixelmart front-end's two stateful pieces:               *)
(*                                                                         *)
(*   - useOwnedNFTs (src/frontend/app/profile/page.tsx, lines 886-969):    *)
(*     the ownership resolver.  One resolution pass enumerates the token   *)
(*     accounts of the connected wallet, keeps the NFT-shaped ones, fans   *)
(*     out one listing lookup and one metadata fetch per kept account,     *)
(*     and joins the results positionally (Promise.all).                   *)
(*                                                                         *)
(*   - WalletSheet (src/unnamed/part_001): the balance / transaction       *)
(*     cache kept in localStorage with a TTL per kind.                     *)
(*                                                                         *)
(* JavaScript runs every handler to completion up to its next await, so    *)
(* each action below is one such run: the synchronous prefix of a handler, *)
(* or the continuation that runs when one awaited promise settles.         *)
(***************************************************************************)
EXTENDS Integers, Sequences, FiniteSets, TLC

(***************************************************************************)
(* Bounds of the model.                                                    *)
(***************************************************************************)
\* the longest token-account list the chain returns for the wallet
MaxHoldings == 3
\* the clock advances in steps of TickMs milliseconds, MaxTicks times
TickMs == 15000
MaxTicks == 4
\* the most network calls of the wallet sheet awaited at once
MaxInFlight == 2
\* the most resolution passes started while the wallet changes
MaxPasses == 3

(***************************************************************************)
(* Values.                                                                 *)
(***************************************************************************)
\* JavaScript's null, for the state cells typed "T | null"
Null == "null"
\* the wallet adapter's publicKey when no wallet is connected
NoWallet == "none"
Wallets == {"W1"}
\* every address of the model: the wallets, and one more that a listing's
\* seller or a later connection may have
Addresses == Wallets \cup {"W2"}

\* JavaScript's undefined in OwnedNFT.metadata (page.tsx line 881)
Undefined == [tag |-> "undefined"]
\* what fetchNFTMetadataFromChain resolves to for a mint
MetadataOf(mint) == [tag |-> "metadata", mint |-> mint]

\* The token accounts the chain may report for the wallet: two NFT-shaped
\* holdings, a fungible balance (1000 units, 6 decimals) and a fungible
\* balance whose ui amount happens to be exactly 1.
TokenAccounts ==
  { [pubkey |-> "A1", mint |-> "M1", uiAmount |-> 1,    decimals |-> 0],
    [pubkey |-> "A2", mint |-> "M2", uiAmount |-> 1,    decimals |-> 0],
    [pubkey |-> "A3", mint |-> "M3", uiAmount |-> 1000, decimals |-> 6],
    [pubkey |-> "A4", mint |-> "M4", uiAmount |-> 1,    decimals |-> 6] }

Range(s) == { s[i] : i \in DOMAIN s }

\* the possible results of getParsedTokenAccountsByOwner: every list of
\* distinct token accounts of at most MaxHoldings entries
Enumerations ==
  { s \in UNION { [1..n -> TokenAccounts] : n \in 0..MaxHoldings } :
      \A i, j \in DOMAIN s : i # j => s[i] # s[j] }

(***************************************************************************)
(* State.                                                                  *)
(***************************************************************************)
VARIABLES
  publicKey,      \* useWallet().publicKey: a wallet address or NoWallet
  nfts,           \* useOwnedNFTs: useState<OwnedNFT[]>
  loading,        \* useOwnedNFTs: useState(true)
  error,          \* useOwnedNFTs: useState<string | null>
  passes,         \* the calls of refetch: each one's position and locals
  now,            \* Date.now(), in milliseconds
  localStorage,   \* window.localStorage: the item stored under each key
  isOpen,         \* WalletSheet: the isOpen prop
  activeTab,      \* WalletSheet: useState<TabType>("assets")
  balance,        \* WalletSheet: useState<number | null>(null)
  loadingBalance, \* WalletSheet: useState(false)
  transactions,   \* WalletSheet: useState<TransactionItem[]>([])
  loadingTxs,     \* WalletSheet: useState(false)
  balanceFetches, \* the getBalance calls awaited, oldest first, each with
                  \* the cache key and forceRefresh of the fetchBalance call
  txFetches,      \* the same for getSignaturesForAddress
  served,         \* what the last handler's fetchBalance / fetchTransactions
                  \* did: "cache", "network" or "none" (history, not state)
  listings,       \* ProfilePage: useListings().listings
  recipient,      \* WalletSheet: useState("") of the Send tab
  amount,         \* WalletSheet: useState(""), the text of the amount input
  sending,        \* WalletSheet: useState(false)
  sendError,      \* WalletSheet: useState("")
  sendSuccess,    \* WalletSheet: useState("")
  sendCall,       \* handleSend: the call it awaits, if it is running
  listing,        \* NFTDetailPage: useListing(mintAddress).listing
  txState,        \* NFTDetailPage: useState<TransactionState>("idle")
  txMessage,      \* NFTDetailPage: useState("")
  txSignature,    \* NFTDetailPage: useState("")
  chainCalls,     \* the buyNft / cancelListing calls awaited, oldest first
  timers,         \* the setTimeout callbacks of the page not yet run
  route           \* the route the router shows

resolverVars == <<nfts, loading, error, passes>>
sheetVars == <<now, localStorage, isOpen, activeTab, balance, loadingBalance,
               transactions, loadingTxs, balanceFetches, txFetches, served>>
profileVars == <<listings>>
\* the variables of the pages other than the resolver and the wallet sheet
sendVars == <<recipient, amount, sending, sendError, sendSuccess, sendCall>>
detailVars == <<listing, txState, txMessage, txSignature, chainCalls, timers, route>>
pageVars == <<profileVars, sendVars, detailVars>>
vars == <<publicKey, nfts, loading, error, passes, now, localStorage, isOpen,
          activeTab, balance, loadingBalance, transactions, loadingTxs,
          balanceFetches, txFetches, served, pageVars>>

(***************************************************************************)
(* JavaScript values of the wallet sheet's state and cache.                *)
(***************************************************************************)
JsNull == [type |-> "null"]
JsNumber(n) == [type |-> "number", value |-> n]
JsArray(items) == [type |-> "array", items |-> items]

\* @solana/web3.js, imported at part_001 line 7
LAMPORTS_PER_SOL == 1000000000

\* part_001 51-53
CACHE_KEY_PREFIX == "pixelmart_wallet_"
BALANCE_CACHE_TTL == 30 * 1000
TX_CACHE_TTL == 60 * 1000

\* part_001 38
TabType == {"assets", "send", "receive", "activity"}
\* the tabs the user visits in the model: the effect of lines 196-204 only
\* tells "activity" from the other three
VisitedTabs == {"assets", "activity"}

\* part_001 115-116: the keys, and 63/76/85: the key of the stored item
balanceCacheKey == IF publicKey # NoWallet THEN <<"balance_", publicKey>> ELSE <<>>
txCacheKey == IF publicKey # NoWallet THEN <<"txs_", publicKey>> ELSE <<>>
StorageKey(key) == <<CACHE_KEY_PREFIX>> \o key
StorageKeys ==
  { StorageKey(<<kind, w>>) : kind \in {"balance_", "txs_"}, w \in Addresses }

\* localStorage.getItem's null, and an item that is not JSON
NoItem == [json |-> "null"]
GarbageItem == [json |-> "garbage"]

\* part_001 75-76: JSON.stringify of a CachedData
JSONstringify(cached) ==
  [json |-> "object", data |-> cached.data, timestamp |-> cached.timestamp]
\* part_001 65 and 87: JSON.parse of an item, which throws on garbage
JSONparseThrows(item) == item.json # "object"
JSONparse(item) == [data |-> item.data, timestamp |-> item.timestamp]

\* the other pages' variables when the pages are not looked at
NoCall == [stage |-> "none"]
NoListing == [listing |-> "null"]
DetailRoute == "/nft/[mint]"
PageAtRest ==
  /\ listings = <<>>
  /\ recipient = ""
  /\ amount = ""
  /\ sending = FALSE
  /\ sendError = ""
  /\ sendSuccess = ""
  /\ sendCall = NoCall
  /\ listing = NoListing
  /\ txState = "idle"
  /\ txMessage = ""
  /\ txSignature = ""
  /\ chainCalls = <<>>
  /\ timers = {}
  /\ route = DetailRoute

\* the wallet sheet's variables when the sheet is not looked at
SheetAtRest ==
  /\ now = 0
  /\ localStorage = [k \in StorageKeys |-> NoItem]
  /\ isOpen = FALSE
  /\ activeTab = "assets"
  /\ balance = JsNull
  /\ loadingBalance = FALSE
  /\ transactions = JsArray(<<>>)
  /\ loadingTxs = FALSE
  /\ balanceFetches = <<>>
  /\ txFetches = <<>>
  /\ served = [balance |-> "none", txs |-> "none"]


(***************************************************************************)
(* useOwnedNFTs.refetch                                                    *)
(***************************************************************************)

\* the filter's predicate without its test of the decimals
IsNFTAccountNoDecimals(account) == account.uiAmount = 1

\* page.tsx 912-918: the filter's predicate
IsNFTAccount(account) ==
  account.uiAmount = 1 /\ account.decimals = 0

\* page.tsx 919-927: the map's function
ToNftAccount(account) ==
  [ mint         |-> account.mint,
    tokenAccount |-> account.pubkey,
    amount       |-> account.uiAmount,
    isListed     |-> FALSE ]

\* page.tsx 911-927: tokenAccounts.value.filter(...).map(...)
FilterNftAccounts(tokenAccounts) ==
  LET kept == SelectSeq(tokenAccounts, IsNFTAccount)
  IN  [ i \in 1..Len(kept) |-> ToNftAccount(kept[i]) ]

\* a pass that has not been called, with the locals it will have
IdlePass ==
  [ stage         |-> "idle",
    wallet        |-> NoWallet,
    tokenAccounts |-> <<>>,
    nftAccounts   |-> <<>>,
    lookups       |-> <<>>,
    order         |-> <<>> ]

\* the async callback of nftAccounts.map, before its first await settles
\* listingAccount and metadata are the callback's locals: "pending" while the
\* await has not settled, "rejected" when it threw
PendingLookup ==
  [ stage |-> "listing", listingAccount |-> "pending", metadata |-> "pending",
    result |-> Undefined ]

\* page.tsx 939-943: the record the callback returns
LookupSuccess(nft, listingAccount, metadata) ==
  [ mint |-> nft.mint, tokenAccount |-> nft.tokenAccount, amount |-> nft.amount,
    isListed |-> (listingAccount # "null"), metadata |-> metadata ]

\* page.tsx 944-951: the record the callback's catch returns
LookupFailure(nft) ==
  [ mint |-> nft.mint, tokenAccount |-> nft.tokenAccount, amount |-> nft.amount,
    isListed |-> FALSE, metadata |-> Undefined ]

\* page.tsx 893-908, with a wallet: setLoading(true), setError(null) and the
\* call of getParsedTokenAccountsByOwner
StartPass(p) ==
  /\ loading' = TRUE
  /\ error' = Null
  /\ passes' = [passes EXCEPT ![p] = [IdlePass EXCEPT !.stage = "enumerating",
                                                     !.wallet = publicKey]]
  /\ UNCHANGED nfts

\* page.tsx 70-73 and 149-152: the Refresh button of the profile page, which
\* is rendered for a connected wallet and disabled while loading
HandleRefresh(p) ==
  /\ publicKey # NoWallet
  /\ ~loading
  /\ passes[p].stage \in {"idle", "settled", "failed"}
  /\ StartPass(p)
  /\ UNCHANGED publicKey

\* page.tsx 905-953: getParsedTokenAccountsByOwner resolves; the filter and
\* the map run and every per-mint callback runs up to its getAccountInfo
EnumerationResolves(p, tokenAccounts) ==
  /\ passes[p].stage = "enumerating"
  /\ LET nftAccounts == FilterNftAccounts(tokenAccounts)
     IN  passes' = [passes EXCEPT ![p] =
           [@ EXCEPT !.stage = "lookups",
                     !.tokenAccounts = tokenAccounts,
                     !.nftAccounts = nftAccounts,
                     !.lookups = [i \in 1..Len(nftAccounts) |-> PendingLookup]]]
  /\ UNCHANGED <<publicKey, nfts, loading, error>>

\* the outer catch only logging the rejection
EnumerationRejectsSwallowed(p) ==
  /\ passes[p].stage = "enumerating"
  /\ loading' = FALSE
  /\ passes' = [passes EXCEPT ![p].stage = "failed"]
  /\ UNCHANGED <<publicKey, nfts, error>>

\* page.tsx 956-961: getParsedTokenAccountsByOwner rejects; the outer catch
\* and the finally run
EnumerationRejects(p) ==
  /\ passes[p].stage = "enumerating"
  /\ error' = "Failed to fetch NFTs"
  /\ loading' = FALSE
  /\ passes' = [passes EXCEPT ![p].stage = "failed"]
  /\ UNCHANGED <<publicKey, nfts>>

\* page.tsx 934-937: getAccountInfo(listingPDA) resolves to null or to an
\* account; the callback goes on to fetchNFTMetadataFromChain
ListingResolves(p, i, account) ==
  /\ passes[p].stage = "lookups"
  /\ i \in DOMAIN passes[p].lookups
  /\ passes[p].lookups[i].stage = "listing"
  /\ passes' = [passes EXCEPT ![p].lookups[i] =
       [@ EXCEPT !.stage = "metadata", !.listingAccount = account]]
  /\ UNCHANGED <<publicKey, nfts, loading, error>>

\* page.tsx 934 and 944-951: getAccountInfo rejects; the catch returns
ListingRejects(p, i) ==
  /\ passes[p].stage = "lookups"
  /\ i \in DOMAIN passes[p].lookups
  /\ passes[p].lookups[i].stage = "listing"
  /\ passes' = [passes EXCEPT
       ![p].lookups[i] = [@ EXCEPT !.stage = "done", !.listingAccount = "rejected",
                                   !.result = LookupFailure(passes[p].nftAccounts[i])],
       ![p].order = Append(@, i)]
  /\ UNCHANGED <<publicKey, nfts, loading, error>>

\* page.tsx 937-943: fetchNFTMetadataFromChain resolves; the callback returns
MetadataResolves(p, i) ==
  /\ passes[p].stage = "lookups"
  /\ i \in DOMAIN passes[p].lookups
  /\ passes[p].lookups[i].stage = "metadata"
  /\ LET nft == passes[p].nftAccounts[i]
     IN  passes' = [passes EXCEPT
           ![p].lookups[i] = [@ EXCEPT !.stage = "done", !.metadata = "resolved",
                !.result = LookupSuccess(nft, passes[p].lookups[i].listingAccount,
                                         MetadataOf(nft.mint))],
           ![p].order = Append(@, i)]
  /\ UNCHANGED <<publicKey, nfts, loading, error>>

\* the callback without its own try/catch: the rejection reaches the outer catch
MetadataRejectsFailsPass(p, i) ==
  /\ passes[p].stage = "lookups"
  /\ i \in DOMAIN passes[p].lookups
  /\ passes[p].lookups[i].stage = "metadata"
  /\ error' = "Failed to fetch NFTs"
  /\ loading' = FALSE
  /\ passes' = [passes EXCEPT ![p].stage = "failed"]
  /\ UNCHANGED <<publicKey, nfts>>

\* page.tsx 937 and 944-951: fetchNFTMetadataFromChain rejects; the catch
\* returns
MetadataRejects(p, i) ==
  /\ passes[p].stage = "lookups"
  /\ i \in DOMAIN passes[p].lookups
  /\ passes[p].lookups[i].stage = "metadata"
  /\ passes' = [passes EXCEPT
       ![p].lookups[i] = [@ EXCEPT !.stage = "done", !.metadata = "rejected",
                                   !.result = LookupFailure(passes[p].nftAccounts[i])],
       ![p].order = Append(@, i)]
  /\ UNCHANGED <<publicKey, nfts, loading, error>>

\* the results collected in the order in which the callbacks returned
MergeInCompletionOrder(pass) ==
  [ k \in 1..Len(pass.order) |-> pass.lookups[pass.order[k]].result ]

\* page.tsx 930-953: what Promise.all resolves to, the callbacks' results in
\* the order of nftAccounts
MergeResults(pass) ==
  [ i \in 1..Len(pass.lookups) |-> pass.lookups[i].result ]

\* page.tsx 930-961: every callback has returned; Promise.all resolves,
\* setNfts and the finally run
AllLookupsSettle(p) ==
  /\ passes[p].stage = "lookups"
  /\ \A i \in DOMAIN passes[p].lookups : passes[p].lookups[i].stage = "done"
  /\ nfts' = MergeResults(passes[p])
  /\ loading' = FALSE
  /\ passes' = [passes EXCEPT ![p].stage = "settled"]
  /\ UNCHANGED <<publicKey, error>>

(***************************************************************************)
(* The resolver's specification: the profile page mounted with a wallet    *)
(* connected.  The mount effect (page.tsx 964-966) has called refetch, so  *)
(* the first pass is awaiting the enumeration.  With the wallet fixed a    *)
(* second pass can only be started by the Refresh button, which is         *)
(* disabled while the first is running.                                    *)
(***************************************************************************)
InitResolver ==
  /\ publicKey \in Wallets
  /\ nfts = <<>>
  /\ loading = TRUE
  /\ error = Null
  /\ passes = [p \in {"p1"} |->
                 [IdlePass EXCEPT !.stage = "enumerating", !.wallet = publicKey]]
  /\ SheetAtRest
  /\ PageAtRest

NextResolver ==
  \/ \E p \in DOMAIN passes : HandleRefresh(p) /\ UNCHANGED <<sheetVars, pageVars>>
  \/ \E p \in DOMAIN passes, tokenAccounts \in Enumerations :
       EnumerationResolves(p, tokenAccounts) /\ UNCHANGED <<sheetVars, pageVars>>
  \/ \E p \in DOMAIN passes : EnumerationRejects(p) /\ UNCHANGED <<sheetVars, pageVars>>
  \/ \E p \in DOMAIN passes, i \in 1..MaxHoldings, account \in {"null", "account"} :
       ListingResolves(p, i, account) /\ UNCHANGED <<sheetVars, pageVars>>
  \/ \E p \in DOMAIN passes, i \in 1..MaxHoldings :
       ListingRejects(p, i) /\ UNCHANGED <<sheetVars, pageVars>>
  \/ \E p \in DOMAIN passes, i \in 1..MaxHoldings :
       MetadataResolves(p, i) /\ UNCHANGED <<sheetVars, pageVars>>
  \/ \E p \in DOMAIN passes, i \in 1..MaxHoldings :
       MetadataRejects(p, i) /\ UNCHANGED <<sheetVars, pageVars>>
  \/ \E p \in DOMAIN passes : AllLookupsSettle(p) /\ UNCHANGED <<sheetVars, pageVars>>

SpecResolver == InitResolver /\ [][NextResolver]_vars

(***************************************************************************)
(* Properties of the resolver, checked under SpecResolver.                 *)
(***************************************************************************)

\* the step in which pass p's Promise.all resolves and its output is stored
Settles(p) == passes[p].stage = "lookups" /\ passes'[p].stage = "settled"

\* a holding of exactly one unit of a token without decimals
UnitHolding(account) == account.uiAmount = 1 /\ account.decimals = 0

\* whether the i-th lookup of a pass hit a rejected request
LookupFailed(lookup) ==
  lookup.listingAccount = "rejected" \/ lookup.metadata = "rejected"

\* C1: every record a pass produces has isListed true exactly when the
\* listing lookup of its mint returned a non-null account in that pass, also
\* when the metadata fetch of the same mint failed afterwards.
C1_ListedIffListingAccountFound ==
  \A p \in DOMAIN passes : \A i \in DOMAIN passes[p].lookups :
    passes[p].lookups[i].stage = "done" =>
      (passes[p].lookups[i].result.isListed
         <=> passes[p].lookups[i].listingAccount = "account")

\* C2: the mints of a pass's output are exactly the mints of the enumerated
\* holdings of quantity 1 and 0 decimals, one entry per such holding.
C2_OutputIsExactlyTheUnitHoldings ==
  [][\A p \in DOMAIN passes :
       Settles(p) =>
         LET unit == { a \in Range(passes[p].tokenAccounts) : UnitHolding(a) }
         IN  /\ { n.mint : n \in Range(nfts') } = { a.mint : a \in unit }
             /\ Len(nfts') = Cardinality(unit)]_vars

\* C2's case: holdings {1/0, 1/0, 1000/6} were enumerated and the output has
\* exactly the two unit holdings' mints.
C2_Witness ==
  \E p \in DOMAIN passes :
    /\ passes[p].stage = "settled"
    /\ passes[p].wallet \in Wallets
    /\ Len(passes[p].tokenAccounts) = 3
    /\ \E i \in 1..3 : /\ passes[p].tokenAccounts[i].uiAmount = 1000
                       /\ passes[p].tokenAccounts[i].decimals = 6
    /\ Cardinality({ i \in 1..3 : UnitHolding(passes[p].tokenAccounts[i]) }) = 2
    /\ Len(nfts) = 2
    /\ { n.mint : n \in Range(nfts) } = {"M1", "M2"}

\* C3: a rejected listing lookup or metadata fetch of one mint leaves the
\* error state alone and the pass running; the pass's output has an entry for
\* that mint without metadata, and every other entry is what its own lookups
\* returned.
C3_LookupFailureIsAbsorbed ==
  [][\A p \in DOMAIN passes :
       /\ \A i \in 1..MaxHoldings :
            (ListingRejects(p, i) \/ MetadataRejects(p, i)) =>
              /\ error' = error
              /\ loading' = loading
              /\ nfts' = nfts
              /\ passes'[p].stage = "lookups"
              /\ \A j \in DOMAIN passes[p].lookups :
                   j # i => passes'[p].lookups[j] = passes[p].lookups[j]
       /\ Settles(p) =>
            /\ error' = error
            /\ Len(nfts') = Len(passes[p].nftAccounts)
            /\ \A i \in DOMAIN passes[p].lookups :
                 LET lookup == passes[p].lookups[i]
                     nft == passes[p].nftAccounts[i]
                 IN  IF LookupFailed(lookup)
                     THEN /\ nfts'[i].mint = nft.mint
                          /\ nfts'[i].metadata = Undefined
                     ELSE nfts'[i] =
                            [ mint |-> nft.mint, tokenAccount |-> nft.tokenAccount,
                              amount |-> nft.amount,
                              isListed |-> (lookup.listingAccount = "account"),
                              metadata |-> MetadataOf(nft.mint) ]]_vars

\* C3's case: a pass completed with the metadata fetch of one mint rejected
\* and another mint resolved in full; the error state is clear.
C3_Witness ==
  \E p \in DOMAIN passes :
    /\ passes[p].stage = "settled"
    /\ error = Null
    /\ Len(nfts) = 2
    /\ \E i, j \in 1..2 :
         /\ passes[p].lookups[i].metadata = "rejected"
         /\ nfts[i].metadata = Undefined
         /\ nfts[i].mint = passes[p].nftAccounts[i].mint
         /\ ~LookupFailed(passes[p].lookups[j])
         /\ nfts[j].metadata = MetadataOf(nfts[j].mint)

\* C9: a rejected enumeration sets the error state, ends loading and issues
\* no per-mint lookup; starting a pass clears the error, so a pass that
\* completes afterwards leaves it clear.
C9_EnumerationFailureIsHard ==
  /\ [](\A p \in DOMAIN passes :
          /\ passes[p].stage = "failed" =>
               /\ passes[p].lookups = <<>>
               /\ passes[p].order = <<>>
               /\ error # Null
               /\ ~loading
          /\ passes[p].stage = "settled" => error = Null /\ ~loading)
  /\ [][\A p \in DOMAIN passes :
          /\ (passes[p].stage = "enumerating" /\ passes'[p].stage = "failed") =>
               /\ error' # Null
               /\ ~loading'
               /\ nfts' = nfts
               /\ passes'[p].lookups = <<>>
          /\ (passes[p].stage = "failed" /\ passes'[p].stage # "failed") =>
               /\ passes'[p].stage = "enumerating"
               /\ error' = Null
               /\ loading']_vars

\* C9's case: the enumeration was rejected.
C9_Witness ==
  \E p \in DOMAIN passes :
    /\ passes[p].stage = "failed"
    /\ error = "Failed to fetch NFTs"
    /\ ~loading
    /\ passes[p].lookups = <<>>

\* C10: the output has one record per retained holding, in the order of the
\* enumeration, whatever the order in which the lookups completed.
C10_OutputInHoldingsOrder ==
  [][\A p \in DOMAIN passes :
       Settles(p) =>
         LET kept == SelectSeq(passes[p].tokenAccounts, UnitHolding)
         IN  /\ Len(nfts') = Len(kept)
             /\ \A i \in 1..Len(kept) :
                  /\ nfts'[i].mint = kept[i].mint
                  /\ nfts'[i].tokenAccount = kept[i].pubkey]_vars

\* C10's case: the second holding's lookups completed before the first's,
\* and the output is still in holdings order.
C10_Witness ==
  \E p \in DOMAIN passes :
    /\ passes[p].stage = "settled"
    /\ passes[p].order = <<2, 1>>
    /\ Len(nfts) = 2
    /\ nfts[1].tokenAccount = passes[p].nftAccounts[1].tokenAccount
    /\ nfts[2].tokenAccount = passes[p].nftAccounts[2].tokenAccount
    /\ nfts[1].tokenAccount # nfts[2].tokenAccount

(***************************************************************************)
(* WalletSheet: the cache (part_001 50-92)                                 *)
(***************************************************************************)

\* getCache with a truthiness test of the data (a balance of 0 is a miss)
getCacheFalsyMiss(key) ==
  LET cached == localStorage[StorageKey(key)]
  IN  IF cached = NoItem THEN JsNull
      ELSE IF JSONparseThrows(cached) THEN JsNull
      ELSE IF JSONparse(cached).data = JsNumber(0) THEN JsNull
      ELSE JSONparse(cached).data

\* part_001 60-70
getCache(key) ==
  LET cached == localStorage[StorageKey(key)]
  IN  IF cached = NoItem THEN JsNull
      ELSE IF JSONparseThrows(cached) THEN JsNull
      ELSE JSONparse(cached).data

\* localStorage after setCache that stamps the entry but keeps the old data
setCacheKeepsData(key, data, setItemThrows) ==
  IF setItemThrows THEN localStorage
  ELSE [localStorage EXCEPT ![StorageKey(key)] =
          JSONstringify([data |-> getCache(key), timestamp |-> now])]

\* localStorage after setCache that removes the item when setItem throws
setCacheClearsOnFailure(key, data, setItemThrows) ==
  [localStorage EXCEPT ![StorageKey(key)] =
     IF setItemThrows THEN NoItem
     ELSE JSONstringify([data |-> data, timestamp |-> now])]

\* part_001 72-80: localStorage after setCache(key, data); setItem may throw
\* (storage full or unavailable), which setCache swallows
setCache(key, data, setItemThrows) ==
  IF setItemThrows THEN localStorage
  ELSE [localStorage EXCEPT ![StorageKey(key)] =
          JSONstringify([data |-> data, timestamp |-> now])]

\* the validity test with <= for <
isCacheValidInclusive(key, ttl) ==
  LET cached == localStorage[StorageKey(key)]
  IN  IF cached = NoItem THEN FALSE
      ELSE IF JSONparseThrows(cached) THEN FALSE
      ELSE now - JSONparse(cached).timestamp <= ttl

\* part_001 82-92
isCacheValid(key, ttl) ==
  LET cached == localStorage[StorageKey(key)]
  IN  IF cached = NoItem THEN FALSE
      ELSE IF JSONparseThrows(cached) THEN FALSE
      ELSE now - JSONparse(cached).timestamp < ttl

(***************************************************************************)
(* WalletSheet: fetchBalance and fetchTransactions (part_001 118-179)      *)
(***************************************************************************)

\* what a call of fetchBalance does: nothing without a wallet, serve from
\* the cache, or go to the network (part_001 120-131)
fetchBalanceIgnoresForce(forceRefresh) ==
  IF publicKey = NoWallet THEN "none"
  ELSE IF /\ isCacheValid(balanceCacheKey, BALANCE_CACHE_TTL)
          /\ getCache(balanceCacheKey) # JsNull
       THEN "cache"
       ELSE "network"
fetchBalanceOutcome(forceRefresh) ==
  IF publicKey = NoWallet THEN "none"
  ELSE IF /\ ~forceRefresh
          /\ isCacheValid(balanceCacheKey, BALANCE_CACHE_TTL)
          /\ getCache(balanceCacheKey) # JsNull
       THEN "cache"
       ELSE "network"

\* part_001 119-133: fetchBalance up to its await.  The awaited call keeps
\* the closure's key and forceRefresh; overtaken is history, not program
\* state: a forced fetch started after this one has already resolved.
fetchBalance(forceRefresh) ==
  LET outcome == fetchBalanceOutcome(forceRefresh)
  IN  /\ balance' = IF outcome = "cache" THEN getCache(balanceCacheKey) ELSE balance
      /\ loadingBalance' = IF outcome = "network" THEN TRUE ELSE loadingBalance
      /\ balanceFetches' =
           IF outcome = "network"
           THEN Append(balanceFetches,
                       [key |-> balanceCacheKey, forceRefresh |-> forceRefresh,
                        overtaken |-> FALSE])
           ELSE balanceFetches

\* part_001 147-158
fetchTransactionsOutcome(forceRefresh) ==
  IF publicKey = NoWallet THEN "none"
  ELSE IF /\ ~forceRefresh
          /\ isCacheValid(txCacheKey, TX_CACHE_TTL)
          /\ getCache(txCacheKey) # JsNull
       THEN "cache"
       ELSE "network"

\* part_001 146-162: fetchTransactions up to its await
fetchTransactions(forceRefresh) ==
  LET outcome == fetchTransactionsOutcome(forceRefresh)
  IN  /\ transactions' =
           IF outcome = "cache" THEN getCache(txCacheKey) ELSE transactions
      /\ loadingTxs' = IF outcome = "network" THEN TRUE ELSE loadingTxs
      /\ txFetches' =
           IF outcome = "network"
           THEN Append(txFetches, [key |-> txCacheKey, forceRefresh |-> forceRefresh])
           ELSE txFetches

\* a sequence without its k-th element
RemoveAt(s, k) == [ i \in 1..(Len(s) - 1) |-> IF i < k THEN s[i] ELSE s[i + 1] ]

\* the awaited getBalance calls once the k-th has resolved: it leaves, and
\* if it was forced the calls started before it are marked overtaken
AfterResolved(fetches, k) ==
  RemoveAt([ i \in DOMAIN fetches |->
             IF fetches[k].forceRefresh /\ i < k
             THEN [fetches[i] EXCEPT !.overtaken = TRUE] ELSE fetches[i] ], k)

\* the balances getBalance may resolve to, in lamports (whole SOL, so that
\* the division of line 134 is exact)
LamportBalances == { 0, 2 * LAMPORTS_PER_SOL }

\* a resolved getBalance that writes under the key of the wallet connected
\* when it resolves
BalanceResolvesUnderCurrentKey(k, bal, setItemThrows) ==
  /\ k \in DOMAIN balanceFetches
  /\ LET balanceInSol == JsNumber(bal \div LAMPORTS_PER_SOL)
     IN  /\ balance' = balanceInSol
         /\ localStorage' = setCache(balanceCacheKey, balanceInSol, setItemThrows)
  /\ loadingBalance' = FALSE
  /\ balanceFetches' = AfterResolved(balanceFetches, k)
  /\ served' = [balance |-> "none", txs |-> "none"]
  /\ UNCHANGED <<publicKey, now, isOpen, activeTab, transactions, loadingTxs, txFetches>>

\* part_001 133-141: the k-th awaited getBalance resolves with bal lamports
BalanceResolves(k, bal, setItemThrows) ==
  /\ k \in DOMAIN balanceFetches
  /\ LET balanceInSol == JsNumber(bal \div LAMPORTS_PER_SOL)
     IN  /\ balance' = balanceInSol
         /\ localStorage' = setCache(balanceFetches[k].key, balanceInSol, setItemThrows)
  /\ loadingBalance' = FALSE
  /\ balanceFetches' = AfterResolved(balanceFetches, k)
  /\ served' = [balance |-> "none", txs |-> "none"]
  /\ UNCHANGED <<publicKey, now, isOpen, activeTab, transactions, loadingTxs, txFetches>>

\* the catch of fetchBalance only logging, as that of fetchTransactions
BalanceRejectsKeepsBalance(k) ==
  /\ k \in DOMAIN balanceFetches
  /\ loadingBalance' = FALSE
  /\ balanceFetches' = RemoveAt(balanceFetches, k)
  /\ served' = [balance |-> "none", txs |-> "none"]
  /\ UNCHANGED <<publicKey, now, localStorage, isOpen, activeTab, balance,
                 transactions, loadingTxs, txFetches>>

\* part_001 137-141: the k-th awaited getBalance rejects
BalanceRejects(k) ==
  /\ k \in DOMAIN balanceFetches
  /\ balance' = JsNull
  /\ loadingBalance' = FALSE
  /\ balanceFetches' = RemoveAt(balanceFetches, k)
  /\ served' = [balance |-> "none", txs |-> "none"]
  /\ UNCHANGED <<publicKey, now, localStorage, isOpen, activeTab, transactions,
                 loadingTxs, txFetches>>

\* what getSignaturesForAddress may resolve to
SignatureLists == { <<[signature |-> "S1", err |-> FALSE]>> }

\* part_001 164-170: the TransactionItems of a signature list (type and
\* amount, drawn by Math.random, and timestamp are left out of the model)
ToTransactionItems(signatures) ==
  JsArray([ i \in 1..Len(signatures) |->
            [ signature |-> signatures[i].signature,
              status    |-> IF signatures[i].err THEN "failed" ELSE "success" ] ])

\* part_001 160-177: the k-th awaited getSignaturesForAddress resolves
TransactionsResolve(k, signatures, setItemThrows) ==
  /\ k \in DOMAIN txFetches
  /\ LET txs == ToTransactionItems(signatures)
     IN  /\ transactions' = txs
         /\ localStorage' = setCache(txFetches[k].key, txs, setItemThrows)
  /\ loadingTxs' = FALSE
  /\ txFetches' = RemoveAt(txFetches, k)
  /\ served' = [balance |-> "none", txs |-> "none"]
  /\ UNCHANGED <<publicKey, now, isOpen, activeTab, balance, loadingBalance,
                 balanceFetches>>

\* part_001 174-177: the k-th awaited getSignaturesForAddress rejects
TransactionsReject(k) ==
  /\ k \in DOMAIN txFetches
  /\ loadingTxs' = FALSE
  /\ txFetches' = RemoveAt(txFetches, k)
  /\ served' = [balance |-> "none", txs |-> "none"]
  /\ UNCHANGED <<publicKey, now, localStorage, isOpen, activeTab, balance,
                 loadingBalance, transactions, balanceFetches>>

(***************************************************************************)
(* WalletSheet: effects and controls                                       *)
(***************************************************************************)

\* part_001 196-204: the effect, run after a render in which the sheet is
\* open (or not) on tab
OpenEffect(open, tab) ==
  IF open /\ publicKey # NoWallet
  THEN /\ fetchBalance(FALSE)
       /\ IF tab = "activity"
          THEN fetchTransactions(FALSE)
          ELSE UNCHANGED <<transactions, loadingTxs, txFetches>>
       /\ served' = [ balance |-> fetchBalanceOutcome(FALSE),
                      txs |-> IF tab = "activity"
                              THEN fetchTransactionsOutcome(FALSE) ELSE "none" ]
  ELSE /\ UNCHANGED <<balance, loadingBalance, balanceFetches,
                      transactions, loadingTxs, txFetches>>
       /\ served' = [balance |-> "none", txs |-> "none"]

\* the model's bound on the calls awaited, as a guard of every handler
WithinFlightBound == Len(balanceFetches') + Len(txFetches') <= MaxInFlight

\* the parent opens the sheet (isOpen becomes true); the effect runs
OpenSheet ==
  /\ ~isOpen
  /\ isOpen' = TRUE
  /\ OpenEffect(TRUE, activeTab)
  /\ UNCHANGED <<publicKey, now, localStorage, activeTab>>
  /\ WithinFlightBound

\* part_001 309 and 355: onClose; the effect runs and finds the sheet closed
CloseSheet ==
  /\ isOpen
  /\ isOpen' = FALSE
  /\ OpenEffect(FALSE, activeTab)
  /\ UNCHANGED <<publicKey, now, localStorage, activeTab>>

\* part_001 396-398: a tab button, rendered for an open sheet with a wallet;
\* choosing another tab re-runs the effect
SetActiveTab(tab) ==
  /\ isOpen
  /\ publicKey # NoWallet
  /\ tab # activeTab
  /\ activeTab' = tab
  /\ OpenEffect(isOpen, tab)
  /\ UNCHANGED <<publicKey, now, localStorage, isOpen>>
  /\ WithinFlightBound

\* part_001 371-375: the Refresh balance button, disabled while loadingBalance
RefreshBalance ==
  /\ isOpen
  /\ publicKey # NoWallet
  /\ ~loadingBalance
  /\ fetchBalance(TRUE)
  /\ served' = [balance |-> fetchBalanceOutcome(TRUE), txs |-> "none"]
  /\ UNCHANGED <<publicKey, now, localStorage, isOpen, activeTab,
                 transactions, loadingTxs, txFetches>>
  /\ WithinFlightBound

\* time passes
Tick ==
  /\ now < MaxTicks * TickMs
  /\ now' = now + TickMs
  /\ served' = [balance |-> "none", txs |-> "none"]
  /\ UNCHANGED <<publicKey, localStorage, isOpen, activeTab, balance, loadingBalance,
                 transactions, loadingTxs, balanceFetches, txFetches>>

(***************************************************************************)
(* The wallet sheet's specification: the sheet mounted closed with a       *)
(* wallet connected.  localStorage holds what an earlier session (or       *)
(* anything else) left under the two keys: nothing, an entry written at    *)
(* time 0 or, under the balance key, something that is not JSON.  The      *)
(* hydration effect (part_001 181-194) has run.                            *)
(***************************************************************************)
ResolverAtRest ==
  /\ nfts = <<>>
  /\ loading = TRUE
  /\ error = Null
  /\ passes = [p \in {"p1"} |-> IdlePass]

InitSheet ==
  /\ publicKey \in Wallets
  /\ ResolverAtRest
  /\ PageAtRest
  /\ now = 0
  /\ \E b \in {NoItem, GarbageItem}
            \cup { JSONstringify([data |-> JsNumber(0), timestamp |-> 0]) },
        t \in {NoItem}
            \cup { JSONstringify([data |-> JsArray(<<>>), timestamp |-> 0]) } :
       localStorage = [k \in StorageKeys |->
                         IF k = StorageKey(balanceCacheKey) THEN b
                         ELSE IF k = StorageKey(txCacheKey) THEN t ELSE NoItem]
  /\ isOpen = FALSE
  /\ activeTab = "assets"
  /\ balance = getCache(balanceCacheKey)
  /\ transactions = IF getCache(txCacheKey) # JsNull
                    THEN getCache(txCacheKey) ELSE JsArray(<<>>)
  /\ loadingBalance = FALSE
  /\ loadingTxs = FALSE
  /\ balanceFetches = <<>>
  /\ txFetches = <<>>
  /\ served = [balance |-> "none", txs |-> "none"]

NextSheet ==
  \/ OpenSheet /\ UNCHANGED <<resolverVars, pageVars>>
  \/ CloseSheet /\ UNCHANGED <<resolverVars, pageVars>>
  \/ \E tab \in VisitedTabs : SetActiveTab(tab) /\ UNCHANGED <<resolverVars, pageVars>>
  \/ RefreshBalance /\ UNCHANGED <<resolverVars, pageVars>>
  \/ \E k \in 1..MaxInFlight, bal \in LamportBalances, setItemThrows \in BOOLEAN :
       BalanceResolves(k, bal, setItemThrows) /\ UNCHANGED <<resolverVars, pageVars>>
  \/ \E k \in 1..MaxInFlight : BalanceRejects(k) /\ UNCHANGED <<resolverVars, pageVars>>
  \/ \E k \in 1..MaxInFlight, signatures \in SignatureLists, setItemThrows \in BOOLEAN :
       TransactionsResolve(k, signatures, setItemThrows) /\ UNCHANGED <<resolverVars, pageVars>>
  \/ \E k \in 1..MaxInFlight : TransactionsReject(k) /\ UNCHANGED <<resolverVars, pageVars>>
  \/ Tick /\ UNCHANGED <<resolverVars, pageVars>>

SpecSheet == InitSheet /\ [][NextSheet]_vars

(***************************************************************************)
(* Properties of the wallet sheet's cache, checked under SpecSheet.        *)
(***************************************************************************)

\* the stored items of the connected wallet, by their full keys
BalanceItem == localStorage[<<"pixelmart_wallet_", "balance_", publicKey>>]
TxItem == localStorage[<<"pixelmart_wallet_", "txs_", publicKey>>]
\* an item that is an entry, its age, and the entry {data: v, timestamp: t}
IsEntry(item) == item.json = "object"
Age(item) == now - item.timestamp
Entry(v, t) == [json |-> "object", data |-> v, timestamp |-> t]
\* a step in which the effect issues its non-forced reads
NonForcedRead == OpenSheet \/ \E tab \in VisitedTabs : SetActiveTab(tab)
\* the awaited getBalance calls that a non-forced read started
NonForced(fetches) == { i \in DOMAIN fetches : ~fetches[i].forceRefresh }

\* C4: while the entry of (kind, wallet) is older than its TTL the non-forced
\* reads have exactly one live fetch under way for it, however many reads
\* are issued before the first fetch completes; when a fetch completes the
\* entry's timestamp is the completion time and the value shown is the
\* fetched one.
C4_StaleEntryIsFetchedOnce ==
  /\ [](/\ (IsEntry(BalanceItem) /\ Age(BalanceItem) >= 30 * 1000)
            => Cardinality(NonForced(balanceFetches)) <= 1
        /\ (IsEntry(TxItem) /\ Age(TxItem) >= 60 * 1000)
            => Cardinality(NonForced(txFetches)) <= 1)
  /\ [][/\ NonForcedRead /\ IsEntry(BalanceItem) /\ Age(BalanceItem) >= 30 * 1000
           /\ balanceFetches = <<>>
           => Len(balanceFetches') = 1
        /\ \A k \in DOMAIN balanceFetches, bal \in LamportBalances :
             BalanceResolves(k, bal, FALSE) =>
               /\ BalanceItem'.timestamp = now
               /\ balance' = JsNumber(bal \div 1000000000)]_vars

\* C5: the Refresh button's fetchBalance(true) starts a live fetch whether
\* or not the entry is fresh, and once a forced fetch has resolved, no
\* fetch started before it changes the displayed balance or the entry.
C5_ForcedResultIsNotOverwritten ==
  [][/\ RefreshBalance =>
          /\ Len(balanceFetches') = Len(balanceFetches) + 1
          /\ balanceFetches'[Len(balanceFetches')].forceRefresh
     /\ \A k \in DOMAIN balanceFetches, bal \in LamportBalances,
           setItemThrows \in BOOLEAN :
          (BalanceResolves(k, bal, setItemThrows) /\ balanceFetches[k].overtaken)
            => (balance' = balance /\ BalanceItem' = BalanceItem)]_vars

\* C6: a value that setCache stored is what a non-forced read returns while
\* now - timestamp < TTL: the read shows the entry's data as stored and
\* issues no getBalance / getSignaturesForAddress call.
C6_ValidEntryIsServedUnchanged ==
  [][/\ \A k \in DOMAIN balanceFetches, bal \in LamportBalances :
          BalanceResolves(k, bal, FALSE) =>
            BalanceItem'.data = JsNumber(bal \div 1000000000)
     /\ \A k \in DOMAIN txFetches, signatures \in SignatureLists :
          TransactionsResolve(k, signatures, FALSE) =>
            TxItem'.data = ToTransactionItems(signatures)
     /\ (NonForcedRead /\ IsEntry(BalanceItem) /\ Age(BalanceItem) < 30 * 1000) =>
          /\ balance' = BalanceItem.data
          /\ balanceFetches' = balanceFetches
          /\ loadingBalance' = loadingBalance
     /\ (/\ NonForcedRead /\ activeTab' = "activity"
         /\ IsEntry(TxItem) /\ Age(TxItem) < 60 * 1000) =>
          /\ transactions' = TxItem.data
          /\ txFetches' = txFetches
          /\ loadingTxs' = loadingTxs]_vars

\* C6's case: a balance of 2 SOL, stored by a fetch of this session, has
\* been served 15 s later by a non-forced read that fetched nothing.
C6_Witness ==
  /\ served.balance = "cache"
  /\ BalanceItem = Entry(JsNumber(2), now - 15000)
  /\ BalanceItem.timestamp > 0
  /\ balance = JsNumber(2)
  /\ balanceFetches = <<>>

\* C7 as stated: every live fetch that succeeds overwrites the entry with
\* the envelope {fetched value, write time}.
C7_EverySuccessfulFetchOverwrites ==
  [][/\ \A k \in DOMAIN balanceFetches, bal \in LamportBalances,
           setItemThrows \in BOOLEAN :
          BalanceResolves(k, bal, setItemThrows) =>
            BalanceItem' = Entry(JsNumber(bal \div 1000000000), now)
     /\ \A k \in DOMAIN txFetches, signatures \in SignatureLists,
           setItemThrows \in BOOLEAN :
          TransactionsResolve(k, signatures, setItemThrows) =>
            TxItem' = Entry(ToTransactionItems(signatures), now)]_vars

\* C7, amended: a non-forced read that finds the entry absent, unparsable
\* or stale starts a live fetch; a live fetch that succeeds overwrites the
\* entry with the envelope {fetched value, write time}, unless the storage
\* write throws, and then the entry stays as it was; an entry changes in no
\* other step, so none pairs one fetch's payload with another's timestamp.
C7_FetchOverwritesWholeEnvelope ==
  [][/\ NonForcedRead =>
          /\ ~(IsEntry(BalanceItem) /\ Age(BalanceItem) < 30 * 1000) =>
               /\ Len(balanceFetches') = Len(balanceFetches) + 1
               /\ ~balanceFetches'[Len(balanceFetches')].forceRefresh
          /\ (activeTab' = "activity" /\ ~(IsEntry(TxItem) /\ Age(TxItem) < 60 * 1000)) =>
               Len(txFetches') = Len(txFetches) + 1
     /\ Len(balanceFetches') < Len(balanceFetches) =>
          \A k \in DOMAIN balanceFetches, bal \in LamportBalances,
             setItemThrows \in BOOLEAN :
            BalanceResolves(k, bal, setItemThrows) =>
              BalanceItem' = IF setItemThrows THEN BalanceItem
                             ELSE Entry(JsNumber(bal \div 1000000000), now)
     /\ Len(txFetches') < Len(txFetches) =>
          \A k \in DOMAIN txFetches, signatures \in SignatureLists,
             setItemThrows \in BOOLEAN :
            TransactionsResolve(k, signatures, setItemThrows) =>
              TxItem' = IF setItemThrows THEN TxItem
                        ELSE Entry(ToTransactionItems(signatures), now)
     /\ BalanceItem' # BalanceItem =>
          /\ BalanceItem' = Entry(balance', now)
          /\ Len(balanceFetches') = Len(balanceFetches) - 1
          /\ TxItem' = TxItem
     /\ TxItem' # TxItem =>
          /\ TxItem' = Entry(transactions', now)
          /\ Len(txFetches') = Len(txFetches) - 1
          /\ BalanceItem' = BalanceItem]_vars

\* C7's case: a fetch of this session has overwritten the balance entry
\* 15 s ago, and a later fetch has resolved with another balance, which is
\* displayed, while its storage write threw: the entry is the earlier one.
C7_Witness ==
  /\ BalanceItem = Entry(JsNumber(2), now - 15000)
  /\ BalanceItem.timestamp > 0
  /\ balance = JsNumber(0)
  /\ balanceFetches = <<>>
  /\ served.balance = "none"

\* C8: an entry is valid exactly while now - timestamp < TTL, 30 s for the
\* balance and 60 s for the transaction list: a non-forced read is served
\* from the cache (no fetch) at an age below the TTL, and goes to the
\* network at an age equal to or above it, with no entry, or with an
\* unparsable one.
C8_ValidExactlyBelowTTL ==
  [][NonForcedRead =>
       /\ (balanceFetches' = balanceFetches)
            <=> (IsEntry(BalanceItem) /\ now - BalanceItem.timestamp < 30000)
       /\ (balanceFetches' # balanceFetches)
            <=> (\/ BalanceItem \in {NoItem, GarbageItem}
                 \/ IsEntry(BalanceItem) /\ now - BalanceItem.timestamp >= 30000)
       /\ activeTab' = "activity" =>
            /\ (txFetches' = txFetches)
                 <=> (IsEntry(TxItem) /\ now - TxItem.timestamp < 60000)
            /\ (txFetches' # txFetches)
                 <=> (\/ TxItem \in {NoItem, GarbageItem}
                      \/ IsEntry(TxItem) /\ now - TxItem.timestamp >= 60000)]_vars

\* C8's case: one run of the effect has read a balance entry of age 30 s
\* exactly, which went to the network, and a transaction entry of age 45 s,
\* which was served from the cache.
C8_Witness ==
  /\ served = [balance |-> "network", txs |-> "cache"]
  /\ IsEntry(BalanceItem) /\ now - BalanceItem.timestamp = 30000
  /\ IsEntry(TxItem) /\ now - TxItem.timestamp = 45000
  /\ Len(balanceFetches) = 1
  /\ txFetches = <<>>

(***************************************************************************)
(* WalletSheet: what the sheet renders of the balance and the history.     *)
(***************************************************************************)

\* Number.prototype.toFixed(4) of a whole number
toFixed4(n) == ToString(n) \o ".0000"

\* part_001 368: the balance in the sheet's header
BalanceText ==
  IF loadingBalance THEN "..."
  ELSE IF balance = JsNull THEN "0.0000"
  ELSE toFixed4(balance.value)

\* part_001 567-580: the body of the Activity tab
ActivityBody ==
  IF loadingTxs THEN <<"Loading transactions...">>
  ELSE IF Len(transactions.items) = 0 THEN <<"No transactions yet">>
  ELSE [ i \in DOMAIN transactions.items |-> transactions.items[i].signature ]

(***************************************************************************)
(* Further properties of the wallet sheet, checked under SpecSheet.        *)
(***************************************************************************)

\* C13: once the sheet has been closed with a fetch in flight, the fetch's
\* eventual result is discarded: while the sheet stays closed neither the
\* sheet's state nor the stored entries change.
C13_ResultAfterTeardownIsDiscarded ==
  [][(~isOpen /\ ~isOpen') =>
       /\ balance' = balance
       /\ transactions' = transactions
       /\ localStorage' = localStorage]_vars

\* the balance shown is a fetched one that is not in the store: the write
\* of the fetch that delivered it was dropped
ShownBalanceWasNotStored ==
  /\ balance # JsNull
  /\ ~(IsEntry(BalanceItem) /\ BalanceItem.data = balance)

\* C15: a failing storage write is dropped and the fetched value is still
\* shown; an unparsable item is a miss; and a non-forced read that follows
\* a dropped write goes to the network.
C15_StorageFailureDegradesToMiss ==
  [][/\ \A k \in DOMAIN balanceFetches, bal \in LamportBalances :
          BalanceResolves(k, bal, TRUE) =>
            /\ BalanceItem' = BalanceItem
            /\ balance' = JsNumber(bal \div 1000000000)
     /\ (NonForcedRead /\ BalanceItem = GarbageItem) =>
          Len(balanceFetches') = Len(balanceFetches) + 1
     /\ (NonForcedRead /\ ShownBalanceWasNotStored) =>
          Len(balanceFetches') = Len(balanceFetches) + 1]_vars

\* C20: a failed balance query or signature-history query leaves the sheet
\* showing an explicit error, which a fetched balance of zero or a fetched
\* empty history would not show.
C20_QueryFailureIsReported ==
  [][/\ \A k \in DOMAIN balanceFetches :
          BalanceRejects(k) => BalanceText' \notin {"...", toFixed4(0)}
     /\ \A k \in DOMAIN txFetches :
          TransactionsReject(k) =>
            ActivityBody' \notin {<<"Loading transactions...">>, <<"No transactions yet">>}]_vars

(***************************************************************************)
(* ProfilePage (page.tsx 35-73): the listings of the marketplace and the   *)
(* views the page derives from them and from the owned NFTs.               *)
(***************************************************************************)

\* the listing accounts the marketplace may hold
ListingAccounts ==
  { [account |-> [seller |-> s, nftMint |-> mint]] :
      s \in Addresses, mint \in {"M1", "M2"} }

\* what useListings may deliver: every list of at most two distinct listings
ListingLists ==
  { s \in UNION { [1..n -> ListingAccounts] : n \in 0..2 } :
      \A i, j \in DOMAIN s : i # j => s[i] # s[j] }

\* what the chain reports in this specification: the NFT-shaped holdings
\* only, at most two of them
ProfileEnumerations ==
  { s \in Enumerations : Len(s) <= 2 /\ \A i \in DOMAIN s : IsNFTAccount(s[i]) }

\* page.tsx 972-988: the records useNFTs hands to the page
useNFTs ==
  [ i \in DOMAIN nfts |->
      [ mint     |-> nfts[i].mint,
        image    |-> IF nfts[i].metadata = Undefined
                     THEN "PLACEHOLDER_IMAGE" ELSE nfts[i].metadata,
        isListed |-> nfts[i].isListed ] ]

\* the listings filter without its test of the seller
myListingsOfAnySeller == listings

\* page.tsx 48-51
myListings ==
  IF publicKey = NoWallet THEN <<>>
  ELSE LET IsMine(l) == l.account.seller = publicKey
       IN  SelectSeq(listings, IsMine)

\* page.tsx 54-56
listedMints == { myListings[i].account.nftMint : i \in DOMAIN myListings }

\* page.tsx 58-60
ownedNotListed ==
  LET NotListed(n) == n.mint \notin listedMints
  IN  SelectSeq(useNFTs, NotListed)

\* useListings delivers a listing set (the hook is not part of the sources)
ListingsArrive(ls) ==
  /\ listings' = ls
  /\ UNCHANGED <<publicKey, resolverVars>>

InitProfile ==
  /\ InitResolver

NextProfile ==
  \/ \E ls \in ListingLists : ListingsArrive(ls) /\ UNCHANGED <<sheetVars, sendVars, detailVars>>
  \/ \E p \in DOMAIN passes : HandleRefresh(p) /\ UNCHANGED <<sheetVars, pageVars>>
  \/ \E p \in DOMAIN passes, tokenAccounts \in ProfileEnumerations :
       EnumerationResolves(p, tokenAccounts) /\ UNCHANGED <<sheetVars, pageVars>>
  \/ \E p \in DOMAIN passes : EnumerationRejects(p) /\ UNCHANGED <<sheetVars, pageVars>>
  \/ \E p \in DOMAIN passes, i \in 1..2, account \in {"null", "account"} :
       ListingResolves(p, i, account) /\ UNCHANGED <<sheetVars, pageVars>>
  \/ \E p \in DOMAIN passes, i \in 1..2 :
       ListingRejects(p, i) /\ UNCHANGED <<sheetVars, pageVars>>
  \/ \E p \in DOMAIN passes, i \in 1..2 :
       MetadataResolves(p, i) /\ UNCHANGED <<sheetVars, pageVars>>
  \/ \E p \in DOMAIN passes, i \in 1..2 :
       MetadataRejects(p, i) /\ UNCHANGED <<sheetVars, pageVars>>
  \/ \E p \in DOMAIN passes : AllLookupsSettle(p) /\ UNCHANGED <<sheetVars, pageVars>>

SpecProfile == InitProfile /\ [][NextProfile]_vars

(***************************************************************************)
(* Properties of the profile page, checked under SpecProfile.              *)
(***************************************************************************)

\* the mints the "available to list" view shows
MintsAvailableToList == { ownedNotListed[j].mint : j \in DOMAIN ownedNotListed }

\* C11: in every state an owned asset is in the "available to list" view
\* exactly when no listing of the current listing set has the connected
\* wallet as its seller and the asset's mint as its mint; the view shows
\* owned assets only.
C11_AvailableIffNotInMyListings ==
  /\ \A i \in DOMAIN nfts :
       (nfts[i].mint \in MintsAvailableToList)
         <=> ~(\E k \in DOMAIN listings :
                 /\ listings[k].account.seller = publicKey
                 /\ listings[k].account.nftMint = nfts[i].mint)
  /\ MintsAvailableToList \subseteq { nfts[i].mint : i \in DOMAIN nfts }

\* C11's case: the wallet owns M1 and M2; M1 is listed by the wallet and M2
\* by another seller, and the view shows M2 only.
C11_Witness ==
  /\ { nfts[i].mint : i \in DOMAIN nfts } = {"M1", "M2"}
  /\ listings = << [account |-> [seller |-> publicKey, nftMint |-> "M1"]],
                   [account |-> [seller |-> "W2", nftMint |-> "M2"]] >>
  /\ publicKey = "W1"
  /\ MintsAvailableToList = {"M2"}

\* C12: an asset whose resolver record has isListed = true is never in the
\* "available to list" view, however the listings fetch and the resolution
\* interleave.
C12_ListedAssetIsNotOffered ==
  \A j \in DOMAIN ownedNotListed : ~ownedNotListed[j].isListed

(***************************************************************************)
(* WalletSheet across wallets: the wallet adapter's publicKey changes      *)
(* (connect, switch, disconnect), which re-runs the hydration effect       *)
(* (part_001 181-194) and the open/tab effect (196-204).                   *)
(***************************************************************************)

\* hydration that never loads the stored value
HydratedNever(key, current) == current

\* part_001 184-191: the state a hydrated cell has after the effect
Hydrated(key, current) ==
  IF getCache(key) # JsNull THEN getCache(key) ELSE current

\* useWallet().publicKey becomes w (NoWallet: the wallet disconnects).  The
\* keys and the callbacks are those of w from this render on; the hydration
\* effect runs, then the open/tab effect, whose fetchBalance and
\* fetchTransactions read w's entries.
SetPublicKey(w) ==
  /\ w # publicKey
  /\ publicKey' = w
  /\ UNCHANGED <<now, localStorage, isOpen, activeTab>>
  /\ LET hydratedBalance == IF w # NoWallet
                            THEN Hydrated(balanceCacheKey', balance) ELSE balance
         hydratedTxs     == IF w # NoWallet
                            THEN Hydrated(txCacheKey', transactions) ELSE transactions
         reads    == isOpen /\ w # NoWallet
         readsTxs == reads /\ activeTab = "activity"
         outcome    == IF reads THEN fetchBalanceOutcome(FALSE)' ELSE "none"
         outcomeTxs == IF readsTxs THEN fetchTransactionsOutcome(FALSE)' ELSE "none"
     IN  /\ balance' = hydratedBalance
         /\ loadingBalance' = IF outcome = "network" THEN TRUE ELSE loadingBalance
         /\ balanceFetches' =
              IF outcome = "network"
              THEN Append(balanceFetches,
                          [key |-> balanceCacheKey', forceRefresh |-> FALSE,
                           overtaken |-> FALSE])
              ELSE balanceFetches
         /\ transactions' = hydratedTxs
         /\ loadingTxs' = IF outcomeTxs = "network" THEN TRUE ELSE loadingTxs
         /\ txFetches' =
              IF outcomeTxs = "network"
              THEN Append(txFetches, [key |-> txCacheKey', forceRefresh |-> FALSE])
              ELSE txFetches
         /\ served' = [balance |-> outcome, txs |-> outcomeTxs]
  /\ WithinFlightBound

\* the time at which the sheet is mounted: 45 s after the entries of time 0
\* were written, when a balance is stale and a transaction list still valid
MountTime == 45 * 1000

\* The sheet is mounted closed and without a wallet; an earlier session has
\* left entries, written at time 0: W2's balance, W1's transactions and
\* perhaps W1's balance.
InitWallets ==
  /\ publicKey = NoWallet
  /\ ResolverAtRest
  /\ PageAtRest
  /\ now = MountTime
  /\ \E b1 \in {NoItem, JSONstringify([data |-> JsNumber(0), timestamp |-> 0])},
        b2 \in {JSONstringify([data |-> JsNumber(2), timestamp |-> 0])},
        t1 \in {JSONstringify([data |-> JsArray(<<>>), timestamp |-> 0])} :
       localStorage = [k \in StorageKeys |->
                         IF k = StorageKey(<<"balance_", "W1">>) THEN b1
                         ELSE IF k = StorageKey(<<"balance_", "W2">>) THEN b2
                         ELSE IF k = StorageKey(<<"txs_", "W1">>) THEN t1
                         ELSE NoItem]
  /\ isOpen = FALSE
  /\ activeTab = "assets"
  /\ balance = JsNull
  /\ transactions = JsArray(<<>>)
  /\ loadingBalance = FALSE
  /\ loadingTxs = FALSE
  /\ balanceFetches = <<>>
  /\ txFetches = <<>>
  /\ served = [balance |-> "none", txs |-> "none"]

NextWallets ==
  \/ \E w \in Addresses \cup {NoWallet} :
       SetPublicKey(w) /\ UNCHANGED <<resolverVars, pageVars>>
  \/ OpenSheet /\ UNCHANGED <<resolverVars, pageVars>>
  \/ CloseSheet /\ UNCHANGED <<resolverVars, pageVars>>
  \/ \E tab \in VisitedTabs : SetActiveTab(tab) /\ UNCHANGED <<resolverVars, pageVars>>
  \/ RefreshBalance /\ UNCHANGED <<resolverVars, pageVars>>
  \/ \E k \in 1..MaxInFlight, bal \in LamportBalances, setItemThrows \in BOOLEAN :
       BalanceResolves(k, bal, setItemThrows) /\ UNCHANGED <<resolverVars, pageVars>>
  \/ \E k \in 1..MaxInFlight : BalanceRejects(k) /\ UNCHANGED <<resolverVars, pageVars>>
  \/ \E k \in 1..MaxInFlight, signatures \in SignatureLists, setItemThrows \in BOOLEAN :
       TransactionsResolve(k, signatures, setItemThrows)
         /\ UNCHANGED <<resolverVars, pageVars>>
  \/ \E k \in 1..MaxInFlight : TransactionsReject(k) /\ UNCHANGED <<resolverVars, pageVars>>

SpecWallets == InitWallets /\ [][NextWallets]_vars

(***************************************************************************)
(* Properties of the cache across wallets, checked under SpecWallets.      *)
(***************************************************************************)

\* the item stored for a kind ("balance_" or "txs_") and a wallet
ItemOf(kind, w) == localStorage[<<"pixelmart_wallet_", kind, w>>]
\* a step in which fetchBalance / fetchTransactions run without force: the
\* effect after an open, a tab change or a change of wallet
EffectRuns == NonForcedRead \/ \E w \in Addresses : SetPublicKey(w)

\* C14: entries are scoped per (kind, wallet) under the key
\* "pixelmart_wallet_" <kind> "_" <wallet>: a fetch is keyed by the wallet
\* connected when it starts; when it resolves, also after the wallet has
\* changed, only that wallet's entry of that kind changes; and a read made
\* for the connected wallet returns that wallet's entry and no other.
C14_EntriesAreScopedPerWallet ==
  [][/\ Len(balanceFetches') > Len(balanceFetches) =>
          balanceFetches'[Len(balanceFetches')].key = <<"balance_", publicKey'>>
     /\ Len(txFetches') > Len(txFetches) =>
          txFetches'[Len(txFetches')].key = <<"txs_", publicKey'>>
     /\ \A k \in DOMAIN balanceFetches, bal \in LamportBalances,
           setItemThrows \in BOOLEAN, w \in Addresses :
          (BalanceResolves(k, bal, setItemThrows)
             /\ balanceFetches[k].key = <<"balance_", w>>) =>
            /\ \A key \in DOMAIN localStorage :
                 key # <<"pixelmart_wallet_", "balance_", w>>
                   => localStorage'[key] = localStorage[key]
            /\ ~setItemThrows =>
                 ItemOf("balance_", w)' = Entry(JsNumber(bal \div 1000000000), now)
     /\ \A k \in DOMAIN txFetches, signatures \in SignatureLists,
           setItemThrows \in BOOLEAN, w \in Addresses :
          (TransactionsResolve(k, signatures, setItemThrows)
             /\ txFetches[k].key = <<"txs_", w>>) =>
            \A key \in DOMAIN localStorage :
              key # <<"pixelmart_wallet_", "txs_", w>>
                => localStorage'[key] = localStorage[key]
     /\ (EffectRuns /\ balance' # balance) =>
          balance' = ItemOf("balance_", publicKey').data
     /\ (EffectRuns /\ transactions' # transactions) =>
          transactions' = ItemOf("txs_", publicKey').data]_vars

\* C14's case: W2 is connected and its own fetch is still awaited; a fetch
\* started for W1 has resolved since (loadingBalance is false again) and
\* its 0 SOL are in W1's entry, stamped now, while W2's entry is the one of
\* time 0.
C14_Witness ==
  /\ publicKey = "W2"
  /\ Len(balanceFetches) = 1
  /\ balanceFetches[1].key = <<"balance_", "W2">>
  /\ ~loadingBalance
  /\ ItemOf("balance_", "W1") = Entry(JsNumber(0), now)
  /\ ItemOf("balance_", "W2") = Entry(JsNumber(2), 0)
  /\ balance = JsNumber(0)

C17_EntriesAreNeverDeleted ==
  /\ [](/\ DOMAIN localStorage \subseteq
             { <<"pixelmart_wallet_", kind, w>> :
                 kind \in {"balance_", "txs_"}, w \in Addresses }
        /\ Cardinality({ key \in DOMAIN localStorage : IsEntry(localStorage[key]) })
             <= 2 * Cardinality(Addresses))
  /\ [][\A key \in DOMAIN localStorage :
          IsEntry(localStorage[key]) =>
            /\ key \in DOMAIN localStorage'
            /\ IsEntry(localStorage'[key])]_vars

\* C17's case: after a change of wallet W1's balance entry of time 0 has
\* been overwritten by a fetch, and W2's entry is still there.
C17_Witness ==
  /\ publicKey = "W2"
  /\ ItemOf("balance_", "W1") = Entry(JsNumber(2), now)
  /\ ItemOf("balance_", "W2") = Entry(JsNumber(2), 0)
  /\ ItemOf("txs_", "W1") = Entry(JsArray(<<>>), 0)


(***************************************************************************)
(* WalletSheet: the Send tab (part_001 216-275, 444-512).                  *)
(*                                                                         *)
(* Amounts are numbers of thousandths of a SOL, so that balance - 0.001    *)
(* is a number of the model.  The amount input is an <Input type="number"> *)
(* (part_001 460-465): its value is "" or the text of a number.            *)
(***************************************************************************)

\* the texts typed into the recipient input: an address, and a text that
\* is not the base58 text of a public key
RecipientTexts == {"W2", "not-an-address"}
\* the texts typed into the amount input
AmountTexts == {"-1", "0", "1", "3"}

\* part_001 225: new PublicKey(text) throws unless the text is an address
PublicKeyNeverThrows(text) == FALSE
PublicKeyThrows(text) == text \notin Addresses

NaN == [nan |-> TRUE]
Milli(n) == [nan |-> FALSE, milli |-> n]
\* part_001 232: parseFloat of the texts the amount input can hold
parseFloat(text) ==
  CASE text = "-1" -> Milli(-1000)
    [] text = "0" -> Milli(0)
    [] text = "0.000000" -> Milli(0)
    [] text = "1" -> Milli(1000)
    [] text = "1.999000" -> Milli(1999)
    [] text = "3" -> Milli(3000)
    [] OTHER -> NaN
isNaN(num) == num.nan

\* part_001 273: Number.prototype.toFixed(6) of a number of thousandths
toFixed6(milli) ==
  LET frac == milli % 1000
  IN  ToString(milli \div 1000) \o "."
        \o (IF frac < 10 THEN "00" ELSE IF frac < 100 THEN "0" ELSE "")
        \o ToString(frac) \o "000"

\* what sendTransaction, confirmTransaction, buyNft and cancelListing may
\* reject with: an Error, an Error whose message is empty (as the wrapper
\* of a rejection that carries no message), or a value that is not an
\* instance of Error (a wallet's plain { code, message } object)
Rejections ==
  { [instanceofError |-> TRUE, message |-> "User rejected the request."],
    [instanceofError |-> TRUE, message |-> ""],
    [instanceofError |-> FALSE, message |-> "Transaction simulation failed"] }
\* what confirmTransaction may resolve to: the value.err of its result
ConfirmationErrs == {Null, "InstructionError"}

\* part_001 262, page.tsx 510 and 535
ErrorMessage(err) ==
  IF err.instanceofError THEN err.message ELSE "Transaction failed"

\* part_001 448-453: onChange of the recipient input
SetRecipient(text) ==
  /\ isOpen /\ publicKey # NoWallet
  /\ recipient' = text
  /\ UNCHANGED <<amount, sending, sendError, sendSuccess, sendCall>>
  /\ UNCHANGED <<publicKey, sheetVars>>

\* part_001 460-465: onChange of the amount input
SetAmount(text) ==
  /\ isOpen /\ publicKey # NoWallet
  /\ amount' = text
  /\ UNCHANGED <<recipient, sending, sendError, sendSuccess, sendCall>>
  /\ UNCHANGED <<publicKey, sheetVars>>

\* part_001 270-275: the MAX button
setMaxAmount ==
  /\ isOpen /\ publicKey # NoWallet
  /\ amount' = IF balance # JsNull
               THEN LET milli == balance.value * 1000 - 1
                    IN  toFixed6(IF milli > 0 THEN milli ELSE 0)
               ELSE amount
  /\ UNCHANGED <<recipient, sending, sendError, sendSuccess, sendCall>>
  /\ UNCHANGED <<publicKey, sheetVars>>

\* part_001 503-505: the Send button is enabled
SendEnabled == ~sending /\ recipient # "" /\ amount # ""

\* handleSend without its comparison of the amount with the balance
handleSendAnyAmount ==
  /\ isOpen /\ publicKey # NoWallet
  /\ SendEnabled
  /\ sendSuccess' = ""
  /\ LET amountNum == parseFloat(amount)
         rejected ==
           IF PublicKeyThrows(recipient) THEN "Invalid recipient address"
           ELSE IF isNaN(amountNum) \/ amountNum.milli <= 0 THEN "Invalid amount"
           ELSE ""
     IN  /\ sendError' = rejected
         /\ sending' = (rejected = "")
         /\ sendCall' =
              IF rejected = ""
              THEN [stage |-> "sendTransaction", toPubkey |-> recipient,
                    milliSol |-> amountNum.milli]
              ELSE sendCall
  /\ UNCHANGED <<recipient, amount>>
  /\ UNCHANGED <<publicKey, sheetVars>>

\* part_001 216-253: handleSend up to its first await.  The transfer is of
\* Math.floor(amountNum * LAMPORTS_PER_SOL) lamports, kept in thousandths
\* of a SOL.
handleSend ==
  /\ isOpen /\ publicKey # NoWallet
  /\ SendEnabled
  /\ sendSuccess' = ""
  /\ LET amountNum == parseFloat(amount)
         rejected ==
           IF PublicKeyThrows(recipient) THEN "Invalid recipient address"
           ELSE IF isNaN(amountNum) \/ amountNum.milli <= 0 THEN "Invalid amount"
           ELSE IF balance # JsNull /\ amountNum.milli > balance.value * 1000
                THEN "Insufficient balance"
                ELSE ""
     IN  /\ sendError' = rejected
         /\ sending' = (rejected = "")
         /\ sendCall' =
              IF rejected = ""
              THEN [stage |-> "sendTransaction", toPubkey |-> recipient,
                    milliSol |-> amountNum.milli]
              ELSE sendCall
  /\ UNCHANGED <<recipient, amount>>
  /\ UNCHANGED <<publicKey, sheetVars>>

\* part_001 253-254: sendTransaction resolves, confirmTransaction is awaited
SendTransactionResolves ==
  /\ sendCall.stage = "sendTransaction"
  /\ sendCall' = [sendCall EXCEPT !.stage = "confirmTransaction"]
  /\ UNCHANGED <<recipient, amount, sending, sendError, sendSuccess>>
  /\ UNCHANGED <<publicKey, sheetVars>>

\* part_001 260-265: an awaited call of handleSend rejects
SendRejects(stage, err) ==
  /\ sendCall.stage = stage
  /\ sendError' = ErrorMessage(err)
  /\ sending' = FALSE
  /\ sendCall' = NoCall
  /\ UNCHANGED <<recipient, amount, sendSuccess>>
  /\ UNCHANGED <<publicKey, sheetVars>>

ConfirmTransactionResolvesNoRefresh(err) ==
  /\ sendCall.stage = "confirmTransaction"
  /\ sendSuccess' = "Transaction sent successfully!"
  /\ recipient' = ""
  /\ amount' = ""
  /\ sending' = FALSE
  /\ sendCall' = NoCall
  /\ UNCHANGED sendError
  /\ UNCHANGED <<publicKey, sheetVars>>

\* part_001 254-259 and 263-265: confirmTransaction resolves; its result,
\* and with it the value.err of a transaction that failed, is not read
ConfirmTransactionResolves(err) ==
  /\ sendCall.stage = "confirmTransaction"
  /\ sendSuccess' = "Transaction sent successfully!"
  /\ recipient' = ""
  /\ amount' = ""
  /\ fetchBalance(TRUE)
  /\ served' = [balance |-> fetchBalanceOutcome(TRUE), txs |-> "none"]
  /\ sending' = FALSE
  /\ sendCall' = NoCall
  /\ UNCHANGED sendError
  /\ UNCHANGED <<publicKey, now, localStorage, isOpen, activeTab, transactions,
                 loadingTxs, txFetches>>
  /\ WithinFlightBound

\* The sheet is open on a connected wallet, at time 0 with an empty cache,
\* and the effect of lines 196-204 has settled: the balance is 0 or 2 SOL,
\* or unknown after a failed fetch.
InitSend ==
  /\ publicKey \in Wallets
  /\ ResolverAtRest
  /\ PageAtRest
  /\ now = 0
  /\ localStorage = [k \in StorageKeys |-> NoItem]
  /\ isOpen = TRUE
  /\ activeTab = "send"
  /\ balance \in {JsNull, JsNumber(0), JsNumber(2)}
  /\ transactions = JsArray(<<>>)
  /\ loadingBalance = FALSE
  /\ loadingTxs = FALSE
  /\ balanceFetches = <<>>
  /\ txFetches = <<>>
  /\ served = [balance |-> "none", txs |-> "none"]

NextSend ==
  \/ \E text \in RecipientTexts \cup {""} :
       SetRecipient(text) /\ UNCHANGED <<resolverVars, profileVars, detailVars>>
  \/ \E text \in AmountTexts \cup {""} :
       SetAmount(text) /\ UNCHANGED <<resolverVars, profileVars, detailVars>>
  \/ setMaxAmount /\ UNCHANGED <<resolverVars, profileVars, detailVars>>
  \/ handleSend /\ UNCHANGED <<resolverVars, profileVars, detailVars>>
  \/ SendTransactionResolves /\ UNCHANGED <<resolverVars, profileVars, detailVars>>
  \/ \E stage \in {"sendTransaction", "confirmTransaction"}, err \in Rejections :
       SendRejects(stage, err) /\ UNCHANGED <<resolverVars, profileVars, detailVars>>
  \/ \E err \in ConfirmationErrs :
       ConfirmTransactionResolves(err) /\ UNCHANGED <<resolverVars, profileVars, detailVars>>
  \/ \E k \in 1..MaxInFlight, bal \in LamportBalances, setItemThrows \in BOOLEAN :
       BalanceResolves(k, bal, setItemThrows) /\ UNCHANGED <<resolverVars, pageVars>>
  \/ \E k \in 1..MaxInFlight : BalanceRejects(k) /\ UNCHANGED <<resolverVars, pageVars>>

SpecSend == InitSend /\ [][NextSend]_vars


(***************************************************************************)
(* Properties of the send flow, checked under SpecSend.                    *)
(***************************************************************************)

\* the recipient text is not an address / the amount text is the text of
\* a number that is not positive
MalformedRecipient == recipient = "not-an-address"
MalformedAmount == amount \in {"-1", "0", "0.000000"}

\* C18: a click on Send with a malformed recipient address or a malformed
\* amount (not a number or <= 0) sets a send error and nothing else: no call
\* of sendTransaction or confirmTransaction is started, sending stays false,
\* and recipient, amount and balance keep their values; so no call is ever
\* in flight for a malformed recipient or a non-positive amount.
C18_MalformedInputIsRejectedBeforeAnyCall ==
  /\ [](sendCall # NoCall =>
          /\ sendCall.toPubkey \in Addresses
          /\ sendCall.milliSol > 0)
  /\ [](sending <=> sendCall # NoCall)
  /\ [][(handleSend /\ (MalformedRecipient \/ MalformedAmount)) =>
          /\ sendError' \in {"Invalid recipient address", "Invalid amount"}
          /\ sendCall' = NoCall /\ sendCall = NoCall
          /\ ~sending'
          /\ recipient' = recipient /\ amount' = amount /\ balance' = balance
          /\ balanceFetches' = balanceFetches]_vars

\* a click on Send with a good address and the amount -1 has been rejected
C18_Witness ==
  /\ recipient = "W2" /\ amount = "-1"
  /\ sendError = "Invalid amount"
  /\ ~sending /\ sendCall = NoCall


(***************************************************************************)
(* NFTDetailPage (page.tsx 466-545, 675-700, 766-780).                     *)
(*                                                                         *)
(* useListing, buyNft, cancelListing and TransactionModal are imported:    *)
(* the page is modelled with a listing that has been loaded, and with the  *)
(* action button clickable whenever the page renders it.                   *)
(***************************************************************************)

\* the listing account of the page's mint, by its seller
ListingOf(seller) ==
  [listing |-> "account", account |-> [seller |-> seller, nftMint |-> "M1"]]

\* an owner test that every wallet passes
isOwnerWhoever == listing # NoListing

\* page.tsx 480
isOwner == listing # NoListing /\ publicKey = listing.account.seller

\* page.tsx 549-574: the page renders its main content, and not the
\* skeleton or "NFT Not Found"
Rendered == route = DetailRoute /\ listing # NoListing
\* page.tsx 675-700: the button shown is Cancel Listing / Buy Now
CancelOffered == Rendered /\ publicKey # NoWallet /\ isOwner
BuyOffered == Rendered /\ publicKey # NoWallet /\ ~isOwner

\* page.tsx 491-498 and 516-523: handleBuy / handleCancel up to the await
Submit(call, message) ==
  /\ Len(chainCalls) < MaxInFlight
  /\ txState' = "pending"
  /\ txMessage' = message
  /\ chainCalls' = Append(chainCalls, call)
  /\ UNCHANGED <<listing, txSignature, timers, route>>
  /\ UNCHANGED <<publicKey, sheetVars>>

handleBuy == BuyOffered /\ Submit("buyNft", "Processing purchase...")
handleCancel == CancelOffered /\ Submit("cancelListing", "Cancelling listing...")

\* the signatures buyNft and cancelListing may resolve to
Signatures == {"S1", "S2"}

\* page.tsx 498-506 and 523-531: the k-th awaited call resolves.  The state
\* of a page that is no longer mounted is not set.
ChainCallResolves(k, signature) ==
  /\ k \in DOMAIN chainCalls
  /\ IF route = DetailRoute
     THEN /\ txSignature' = signature
          /\ txState' = "success"
          /\ txMessage' = IF chainCalls[k] = "buyNft"
                          THEN "NFT purchased successfully!"
                          ELSE "Listing cancelled successfully!"
     ELSE UNCHANGED <<txSignature, txState, txMessage>>
  /\ timers' = timers \cup {IF chainCalls[k] = "buyNft" THEN "refetch" ELSE "redirect"}
  /\ chainCalls' = RemoveAt(chainCalls, k)
  /\ UNCHANGED <<listing, route>>
  /\ UNCHANGED <<publicKey, sheetVars>>

\* page.tsx 507-513 and 532-538: the k-th awaited call rejects
ChainCallRejects(k, err) ==
  /\ k \in DOMAIN chainCalls
  /\ IF route = DetailRoute
     THEN /\ txState' = "error"
          /\ txMessage' = ErrorMessage(err)
     ELSE UNCHANGED <<txState, txMessage>>
  /\ chainCalls' = RemoveAt(chainCalls, k)
  /\ UNCHANGED <<listing, txSignature, timers, route>>
  /\ UNCHANGED <<publicKey, sheetVars>>

\* page.tsx 541-545 and 766-780: the modal, open while txState is not
\* "idle", is closed
closeModal ==
  /\ Rendered
  /\ txState # "idle"
  /\ txState' = "idle"
  /\ txMessage' = ""
  /\ txSignature' = ""
  /\ UNCHANGED <<listing, chainCalls, timers, route>>
  /\ UNCHANGED <<publicKey, sheetVars>>

\* page.tsx 504-506: the timer of a purchase runs refetch(), which loads
\* the listing again: it is found, or has gone
RefetchFires(found) ==
  /\ "refetch" \in timers
  /\ timers' = timers \ {"refetch"}
  /\ listing' = IF route = DetailRoute /\ ~found THEN NoListing ELSE listing
  /\ UNCHANGED <<txState, txMessage, txSignature, chainCalls, route>>
  /\ UNCHANGED <<publicKey, sheetVars>>

\* page.tsx 529-531: the timer of a cancellation runs router.push
RedirectFires ==
  /\ "redirect" \in timers
  /\ timers' = timers \ {"redirect"}
  /\ route' = "/profile"
  /\ UNCHANGED <<listing, txState, txMessage, txSignature, chainCalls>>
  /\ UNCHANGED <<publicKey, sheetVars>>

\* The page shows a loaded listing, of the connected wallet or of another
\* seller.
\* page.tsx 467: useWallet() gives another publicKey (w, or none after a
\* disconnection) and the page renders again; its state is kept
DetailWalletChanges(w) ==
  /\ route = DetailRoute
  /\ w # publicKey
  /\ publicKey' = w
  /\ UNCHANGED <<sheetVars, detailVars>>

InitDetail ==
  /\ publicKey \in Wallets
  /\ ResolverAtRest
  /\ SheetAtRest
  /\ listings = <<>>
  /\ recipient = "" /\ amount = "" /\ sending = FALSE
  /\ sendError = "" /\ sendSuccess = "" /\ sendCall = NoCall
  /\ listing \in { ListingOf(seller) : seller \in Addresses }
  /\ txState = "idle"
  /\ txMessage = ""
  /\ txSignature = ""
  /\ chainCalls = <<>>
  /\ timers = {}
  /\ route = DetailRoute

NextDetail ==
  \/ handleBuy /\ UNCHANGED <<resolverVars, profileVars, sendVars>>
  \/ handleCancel /\ UNCHANGED <<resolverVars, profileVars, sendVars>>
  \/ \E k \in 1..MaxInFlight, signature \in Signatures :
       ChainCallResolves(k, signature) /\ UNCHANGED <<resolverVars, profileVars, sendVars>>
  \/ \E k \in 1..MaxInFlight, err \in Rejections :
       ChainCallRejects(k, err) /\ UNCHANGED <<resolverVars, profileVars, sendVars>>
  \/ closeModal /\ UNCHANGED <<resolverVars, profileVars, sendVars>>
  \/ \E found \in BOOLEAN :
       RefetchFires(found) /\ UNCHANGED <<resolverVars, profileVars, sendVars>>
  \/ RedirectFires /\ UNCHANGED <<resolverVars, profileVars, sendVars>>
  \/ \E w \in Addresses \cup {NoWallet} :
       DetailWalletChanges(w) /\ UNCHANGED <<resolverVars, profileVars, sendVars>>

SpecDetail == InitDetail /\ [][NextDetail]_vars


(***************************************************************************)
(* Failures of the external calls.                                         *)
(***************************************************************************)

\* C19: when sendTransaction or confirmTransaction fails - it rejects, or
\* the confirmation resolves with the error of a failed transaction - the
\* send error is the failure's own message, no call is started again, and
\* no success message and no forced balance fetch follow.  (Checked under
\* SpecSend, for the send flow.)
C19_FailureIsReportedAndNotRetried ==
  [][/\ \A stage \in {"sendTransaction", "confirmTransaction"}, err \in Rejections :
          SendRejects(stage, err) =>
            /\ sendError' = err.message
            /\ sendCall' = NoCall
            /\ sendSuccess' = ""
            /\ balanceFetches' = balanceFetches
     /\ \A err \in ConfirmationErrs \ {Null} :
          ConfirmTransactionResolves(err) =>
            /\ sendError' # ""
            /\ sendCall' = NoCall
            /\ sendSuccess' = ""
            /\ balanceFetches' = balanceFetches]_vars

\* the same for buyNft and cancelListing, under SpecDetail: a rejection
\* shows the error state of the mounted page with the message the page
\* derives from it, and starts no call, no timer and no navigation
DetailFailureIsNotRetried ==
  [][\A k \in 1..MaxInFlight, err \in Rejections :
       ChainCallRejects(k, err) =>
         /\ route = DetailRoute =>
               txState' = "error" /\ txMessage' = ErrorMessage(err)
         /\ Len(chainCalls') = Len(chainCalls) - 1
         /\ timers' = timers /\ route' = route /\ listing' = listing]_vars


(***************************************************************************)
(* The actions whose result is consumed by fetching again: a send from the *)
(* wallet sheet (part_001 253-259) and a purchase on the detail page       *)
(* (page.tsx 497-506), side by side.  The wallet W1 sends 1 SOL to W2 and  *)
(* buys W2's listing; timers that were set do run.                         *)
(***************************************************************************)
InitConsume ==
  /\ publicKey \in Wallets
  /\ ResolverAtRest
  /\ now = 0
  /\ localStorage = [k \in StorageKeys |-> NoItem]
  /\ isOpen = TRUE
  /\ activeTab = "send"
  /\ balance \in {JsNull, JsNumber(2)}
  /\ transactions = JsArray(<<>>)
  /\ loadingBalance = FALSE
  /\ loadingTxs = FALSE
  /\ balanceFetches = <<>>
  /\ txFetches = <<>>
  /\ served = [balance |-> "none", txs |-> "none"]
  /\ listings = <<>>
  /\ recipient = "" /\ amount = "" /\ sending = FALSE
  /\ sendError = "" /\ sendSuccess = "" /\ sendCall = NoCall
  /\ listing = ListingOf("W2")
  /\ txState = "idle"
  /\ txMessage = ""
  /\ txSignature = ""
  /\ chainCalls = <<>>
  /\ timers = {}
  /\ route = DetailRoute

\* the step in which the timer of a purchase runs refetch()
RefetchRuns ==
  \E found \in BOOLEAN :
    RefetchFires(found) /\ UNCHANGED <<resolverVars, profileVars, sendVars>>

NextConsume ==
  \/ SetRecipient("W2") /\ UNCHANGED <<resolverVars, profileVars, detailVars>>
  \/ SetAmount("1") /\ UNCHANGED <<resolverVars, profileVars, detailVars>>
  \/ handleSend /\ UNCHANGED <<resolverVars, profileVars, detailVars>>
  \/ SendTransactionResolves /\ UNCHANGED <<resolverVars, profileVars, detailVars>>
  \/ \E stage \in {"sendTransaction", "confirmTransaction"}, err \in Rejections :
       SendRejects(stage, err) /\ UNCHANGED <<resolverVars, profileVars, detailVars>>
  \/ \E err \in ConfirmationErrs :
       ConfirmTransactionResolves(err) /\ UNCHANGED <<resolverVars, profileVars, detailVars>>
  \/ \E k \in 1..MaxInFlight, bal \in LamportBalances, setItemThrows \in BOOLEAN :
       BalanceResolves(k, bal, setItemThrows) /\ UNCHANGED <<resolverVars, pageVars>>
  \/ \E k \in 1..MaxInFlight : BalanceRejects(k) /\ UNCHANGED <<resolverVars, pageVars>>
  \/ handleBuy /\ UNCHANGED <<resolverVars, profileVars, sendVars>>
  \/ \E k \in 1..MaxInFlight, signature \in Signatures :
       ChainCallResolves(k, signature) /\ UNCHANGED <<resolverVars, profileVars, sendVars>>
  \/ \E k \in 1..MaxInFlight, err \in Rejections :
       ChainCallRejects(k, err) /\ UNCHANGED <<resolverVars, profileVars, sendVars>>
  \/ closeModal /\ UNCHANGED <<resolverVars, profileVars, sendVars>>
  \/ RefetchRuns

\* a timer that was set runs: nothing on the page clears it
SpecConsume == InitConsume /\ [][NextConsume]_vars /\ WF_vars(RefetchRuns)


(***************************************************************************)
(* Properties checked under SpecConsume.                                   *)
(***************************************************************************)

\* the forced fetch that a successful send starts
ForcedFetch == [key |-> balanceCacheKey, forceRefresh |-> TRUE, overtaken |-> FALSE]

\* a successful send calls fetchBalance(true); a successful purchase sets
\* the timer of refetch(), and only refetch() takes that timer away
SuccessStartsRefetch ==
  /\ \A err \in ConfirmationErrs :
       ConfirmTransactionResolves(err) =>
         balanceFetches' = Append(balanceFetches, ForcedFetch)
  /\ \A k \in DOMAIN chainCalls, signature \in Signatures :
       (ChainCallResolves(k, signature) /\ chainCalls[k] = "buyNft")
         => "refetch" \in timers'
  /\ ("refetch" \in timers /\ "refetch" \notin timers') => RefetchRuns

\* C21 as stated: a successful send is followed by a forced balance fetch
\* and, when that fetch succeeds, the displayed balance and the balance
\* entry of the cache hold the value it fetched; a successful purchase is
\* followed by a refetch of the listing.
C21_SuccessIsConsumedByRefetching ==
  /\ [][/\ SuccessStartsRefetch
        /\ \A k \in DOMAIN balanceFetches, bal \in LamportBalances,
              setItemThrows \in BOOLEAN :
             (BalanceResolves(k, bal, setItemThrows) /\ balanceFetches[k].forceRefresh)
               => /\ balance' = JsNumber(bal \div 1000000000)
                  /\ BalanceItem' = Entry(JsNumber(bal \div 1000000000), now)]_vars
  /\ ("refetch" \in timers) ~> ("refetch" \notin timers)

\* C21, amended: the same, except that the balance entry holds the fetched
\* value only if the storage write does not throw; if it throws, the entry
\* stays as it was before the send and the fetched value is displayed.
C21_RefetchedUnlessWriteThrows ==
  /\ [][/\ SuccessStartsRefetch
        /\ \A k \in DOMAIN balanceFetches, bal \in LamportBalances,
              setItemThrows \in BOOLEAN :
             (BalanceResolves(k, bal, setItemThrows) /\ balanceFetches[k].forceRefresh)
               => /\ balance' = JsNumber(bal \div 1000000000)
                  /\ BalanceItem' = IF setItemThrows THEN BalanceItem
                                    ELSE Entry(JsNumber(bal \div 1000000000), now)]_vars
  /\ ("refetch" \in timers) ~> ("refetch" \notin timers)

\* a send has succeeded and its forced fetch has resolved with 0 SOL, which
\* is displayed while no entry was written; a purchase has succeeded and
\* its refetch has found the listing gone
C21_Witness ==
  /\ sendSuccess = "Transaction sent successfully!"
  /\ balanceFetches = <<>>
  /\ balance = JsNumber(0)
  /\ BalanceItem = NoItem
  /\ txState = "success"
  /\ timers = {}
  /\ listing = NoListing


(***************************************************************************)
(* useOwnedNFTs while the wallet changes (page.tsx 886-969).               *)
(*                                                                         *)
(* refetch is a useCallback over [connection, publicKey] and the effect of *)
(* lines 964-966 calls it whenever it changes: a change of wallet starts a *)
(* pass while the passes under way go on.  The passes are numbered in the  *)
(* order in which they start.  Each wallet holds one NFT of its own, which *)
(* the chain reports or not; the NFT is not listed and its lookups succeed *)
(* (SpecResolver has the lookups that fail).                               *)
(***************************************************************************)
PassId(n) == "p" \o ToString(n)
PassIds == { PassId(n) : n \in 1..MaxPasses }

\* the passes started so far, the next to start and the one started last
Started == { p \in DOMAIN passes : passes[p].stage # "idle" }
NextPass == PassId(Cardinality(Started) + 1)
LastPass == PassId(Cardinality(Started))
\* the passes that are awaiting something
Running == { p \in DOMAIN passes : passes[p].stage \in {"enumerating", "lookups"} }

\* what getParsedTokenAccountsByOwner may resolve to for a wallet
HoldingOf(w) ==
  IF w = "W1" THEN [pubkey |-> "A1", mint |-> "M1", uiAmount |-> 1, decimals |-> 0]
  ELSE [pubkey |-> "A2", mint |-> "M2", uiAmount |-> 1, decimals |-> 0]
EnumerationsOf(w) == { <<>>, <<HoldingOf(w)>> }

\* refetch that only ends loading when there is no wallet
refetchWithoutWalletKeepsList ==
  /\ loading' = FALSE
  /\ UNCHANGED <<nfts, error, passes>>

\* page.tsx 893-898: refetch without a wallet
refetchWithoutWallet ==
  /\ nfts' = <<>>
  /\ loading' = FALSE
  /\ UNCHANGED <<error, passes>>

\* the wallet adapter's publicKey becomes w; page.tsx 964-966: the effect
\* calls the new refetch
WalletChanges(w) ==
  /\ w # publicKey
  /\ publicKey' = w
  /\ IF w = NoWallet
     THEN refetchWithoutWallet
     ELSE /\ NextPass \in DOMAIN passes
          /\ loading' = TRUE
          /\ error' = Null
          /\ passes' = [passes EXCEPT ![NextPass] =
                          [IdlePass EXCEPT !.stage = "enumerating", !.wallet = w]]
          /\ UNCHANGED nfts

InitOverlap ==
  /\ publicKey \in Wallets
  /\ nfts = <<>>
  /\ loading = TRUE
  /\ error = Null
  /\ passes = [p \in PassIds |->
                 IF p = PassId(1)
                 THEN [IdlePass EXCEPT !.stage = "enumerating", !.wallet = publicKey]
                 ELSE IdlePass]
  /\ SheetAtRest
  /\ PageAtRest

NextOverlap ==
  \/ \E w \in Addresses \cup {NoWallet} :
       WalletChanges(w) /\ UNCHANGED <<sheetVars, pageVars>>
  \/ (NextPass \in DOMAIN passes /\ HandleRefresh(NextPass))
       /\ UNCHANGED <<sheetVars, pageVars>>
  \/ \E p \in DOMAIN passes :
       \E tokenAccounts \in EnumerationsOf(passes[p].wallet) :
         EnumerationResolves(p, tokenAccounts) /\ UNCHANGED <<sheetVars, pageVars>>
  \/ \E p \in DOMAIN passes : EnumerationRejects(p) /\ UNCHANGED <<sheetVars, pageVars>>
  \/ \E p \in DOMAIN passes :
       ListingResolves(p, 1, "null") /\ UNCHANGED <<sheetVars, pageVars>>
  \/ \E p \in DOMAIN passes : MetadataResolves(p, 1) /\ UNCHANGED <<sheetVars, pageVars>>
  \/ \E p \in DOMAIN passes : AllLookupsSettle(p) /\ UNCHANGED <<sheetVars, pageVars>>

SpecOverlap == InitOverlap /\ [][NextOverlap]_vars


(***************************************************************************)
(* Properties of the overlapping passes, checked under SpecOverlap.        *)
(***************************************************************************)

\* C22: once no pass is under way, the list held for a connected wallet is
\* the output of the pass that was started last, if that pass produced
\* one, and every asset in it is a holding of the connected wallet: an
\* earlier pass that completes later does not replace it.
C22_ListIsOfTheLastPass ==
  (Running = {} /\ publicKey # NoWallet) =>
    /\ passes[LastPass].stage = "settled" => nfts = MergeResults(passes[LastPass])
    /\ \A i \in DOMAIN nfts : nfts[i].mint = HoldingOf(publicKey).mint


(***************************************************************************)
(* Further properties of the sheet across wallets, checked under           *)
(* SpecWallets.                                                            *)
(***************************************************************************)

\* C23: what the sheet displays for a connected wallet is empty or was
\* obtained for that wallet.  When the wallet changes to W, the balance is
\* unknown or W's cached balance and the transaction list is empty or W's
\* cached list; and a fetch that was started for another wallet does not
\* change what is displayed when it completes.
C23_DisplayedDataIsOfConnectedWallet ==
  [][/\ (publicKey' # publicKey /\ publicKey' # NoWallet) =>
          /\ \/ balance' = JsNull
             \/ IsEntry(BalanceItem') /\ balance' = BalanceItem'.data
          /\ \/ transactions' = JsArray(<<>>)
             \/ IsEntry(TxItem') /\ transactions' = TxItem'.data
     /\ \A k \in DOMAIN balanceFetches, bal \in LamportBalances,
           setItemThrows \in BOOLEAN :
          (/\ BalanceResolves(k, bal, setItemThrows)
           /\ publicKey # NoWallet
           /\ balanceFetches[k].key # balanceCacheKey)
            => balance' = balance
     /\ \A k \in DOMAIN txFetches, signatures \in SignatureLists,
           setItemThrows \in BOOLEAN :
          (/\ TransactionsResolve(k, signatures, setItemThrows)
           /\ publicKey # NoWallet
           /\ txFetches[k].key # txCacheKey)
            => transactions' = transactions]_vars


(***************************************************************************)
(* Failed fetches of the wallet sheet, checked under SpecSheet.            *)
(***************************************************************************)

\* C24: a live fetch that fails changes no cache entry; a failed
\* getSignaturesForAddress leaves the displayed list as it was, while a
\* failed getBalance sets the displayed balance to null, whatever the cache
\* holds.
C24_FailedFetchKeepsTheEntry ==
  [][/\ \A k \in DOMAIN balanceFetches :
          BalanceRejects(k) =>
            /\ localStorage' = localStorage
            /\ balance' = JsNull
            /\ transactions' = transactions
     /\ \A k \in DOMAIN txFetches :
          TransactionsReject(k) =>
            /\ localStorage' = localStorage
            /\ transactions' = transactions
            /\ balance' = balance]_vars

\* a balance entry written in this session is still valid, and the balance
\* displayed is unknown: the fetch made after it has failed
C24_Witness ==
  /\ IsEntry(BalanceItem)
  /\ BalanceItem.timestamp > 0
  /\ Age(BalanceItem) < 30 * 1000
  /\ balance = JsNull
  /\ balanceFetches = <<>>


(***************************************************************************)
(* Properties of the detail page, checked under SpecDetail.                *)
(***************************************************************************)

\* C25: txState only goes from idle to pending, from pending to success
\* or error, and back to idle through closeModal; a call is only started
\* for a loaded listing; in the error state the signature shown is empty,
\* and a call that resolves shows the success state with its signature.
C25_TransactionStateMachine ==
  /\ [](txState = "error" => txSignature = "")
  /\ [][/\ txState' # txState =>
             \/ txState = "idle" /\ txState' = "pending"
             \/ txState = "pending" /\ txState' \in {"success", "error"}
             \/ txState' = "idle" /\ closeModal
        /\ Len(chainCalls') > Len(chainCalls) => listing # NoListing
        /\ \A k \in DOMAIN chainCalls, signature \in Signatures :
             (ChainCallResolves(k, signature) /\ route = DetailRoute)
               => txState' = "success" /\ txSignature' = signature]_vars


(***************************************************************************)
(* Further properties of the send flow, checked under SpecSend.            *)
(***************************************************************************)

\* C26: sending is true exactly while a call of handleSend is awaited, from
\* the click that passes validation to the success or failure of the
\* submission and confirmation; a click is only possible while it is false;
\* and when a flow ends, by a rejected click or by the end of the calls,
\* exactly one of the success message and the error message is set.
C26_SendingBracketsOneSubmission ==
  /\ [](sending <=> sendCall.stage \in {"sendTransaction", "confirmTransaction"})
  /\ [][/\ handleSend => ~sending
        /\ (handleSend /\ sendError' = "") => sending'
        /\ ((handleSend /\ ~sending') \/ (sending /\ ~sending')) =>
             (sendSuccess' # "") # (sendError' # "")]_vars

\* C27: sendTransaction is only called for an amount that is positive and,
\* when the balance displayed is known, not above it (3 SOL is above every
\* balance of the model); with the balance unknown the comparison is
\* skipped, and a click with a good address and a positive amount submits.
C27_SubmittedAmountIsWithinKnownBalance ==
  [][/\ (sendCall = NoCall /\ sendCall' # NoCall) =>
          /\ sendCall'.stage = "sendTransaction"
          /\ sendCall'.milliSol > 0
          /\ amount \in {"1", "1.999000", "3"}
          /\ balance # JsNull =>
               /\ sendCall'.milliSol <= balance.value * 1000
               /\ amount # "3"
     /\ (handleSend /\ balance = JsNull /\ recipient = "W2"
           /\ amount \in {"1", "1.999000", "3"}) =>
          /\ sendCall'.stage = "sendTransaction"
          /\ sendError' = ""
     /\ (handleSend /\ balance # JsNull /\ amount = "3") =>
          sendError' \in {"Invalid recipient address", "Insufficient balance"}]_vars

\* with the balance unknown after a failed fetch (an earlier fetch had
\* written the entry), a transfer of 3 SOL has been submitted
C27_Witness ==
  /\ balance = JsNull
  /\ IsEntry(BalanceItem)
  /\ sendCall.stage = "sendTransaction"
  /\ sendCall.milliSol = 3000
  /\ sending


(***************************************************************************)
(* The hooks and the sheet with no wallet connected.                       *)
(*                                                                         *)
(* refetch is called without a wallet by the effect of page.tsx 964-966.   *)
(* fetchBalance, fetchTransactions and handleSend begin with the same test *)
(* (part_001 120, 147, 217); the specification calls them in the states a  *)
(* session can be in once its wallet is gone: the resolver as mounted or   *)
(* as a pass left it, the sheet with what an earlier wallet left in its    *)
(* state and in the cache.                                                 *)
(***************************************************************************)

\* the list a pass of an earlier wallet has left
LeftNfts == { <<>>, <<LookupSuccess(ToNftAccount(HoldingOf("W1")), "null", MetadataOf("M1"))>> }

\* page.tsx 964-966 and 893-898: refetch is called and there is no wallet
RefetchCalled ==
  /\ publicKey = NoWallet
  /\ refetchWithoutWallet
  /\ UNCHANGED publicKey

\* part_001 119-120: fetchBalance is called
FetchBalanceCalled(forceRefresh) ==
  /\ fetchBalance(forceRefresh)
  /\ served' = [balance |-> fetchBalanceOutcome(forceRefresh), txs |-> "none"]
  /\ UNCHANGED <<publicKey, now, localStorage, isOpen, activeTab, transactions,
                 loadingTxs, txFetches>>
  /\ WithinFlightBound

\* part_001 146-147: fetchTransactions is called
FetchTransactionsCalled(forceRefresh) ==
  /\ fetchTransactions(forceRefresh)
  /\ served' = [balance |-> "none", txs |-> fetchTransactionsOutcome(forceRefresh)]
  /\ UNCHANGED <<publicKey, now, localStorage, isOpen, activeTab, balance,
                 loadingBalance, balanceFetches>>
  /\ WithinFlightBound

\* part_001 216-217: handleSend is called; without a wallet it returns
HandleSendCalled ==
  \/ /\ publicKey = NoWallet
     /\ UNCHANGED <<sendVars, publicKey, sheetVars>>
  \/ handleSend

InitNoWallet ==
  /\ publicKey = NoWallet
  /\ \/ nfts = <<>> /\ loading = TRUE /\ error = Null
     \/ nfts \in LeftNfts /\ loading = FALSE
          /\ error \in {Null, "Failed to fetch NFTs"}
  /\ passes = [p \in {"p1"} |-> IdlePass]
  /\ now = 0
  /\ \E b \in {NoItem, JSONstringify([data |-> JsNumber(2), timestamp |-> 0])} :
       localStorage = [k \in StorageKeys |->
                         IF k = StorageKey(<<"balance_", "W1">>) THEN b ELSE NoItem]
  /\ isOpen = FALSE
  /\ activeTab = "assets"
  /\ balance \in {JsNull, JsNumber(2)}
  /\ transactions = JsArray(<<>>)
  /\ loadingBalance = FALSE
  /\ loadingTxs = FALSE
  /\ balanceFetches = <<>>
  /\ txFetches = <<>>
  /\ served = [balance |-> "none", txs |-> "none"]
  /\ listings = <<>>
  /\ recipient \in {"", "W2"}
  /\ amount \in {"", "1"}
  /\ sending = FALSE
  /\ sendError \in {"", "Insufficient balance"}
  /\ sendSuccess = ""
  /\ sendCall = NoCall
  /\ listing = NoListing
  /\ txState = "idle" /\ txMessage = "" /\ txSignature = ""
  /\ chainCalls = <<>> /\ timers = {} /\ route = DetailRoute

NextNoWallet ==
  \/ RefetchCalled /\ UNCHANGED <<sheetVars, pageVars>>
  \/ OpenSheet /\ UNCHANGED <<resolverVars, pageVars>>
  \/ CloseSheet /\ UNCHANGED <<resolverVars, pageVars>>
  \/ \E forceRefresh \in BOOLEAN :
       FetchBalanceCalled(forceRefresh) /\ UNCHANGED <<resolverVars, pageVars>>
  \/ \E forceRefresh \in BOOLEAN :
       FetchTransactionsCalled(forceRefresh) /\ UNCHANGED <<resolverVars, pageVars>>
  \/ HandleSendCalled /\ UNCHANGED <<resolverVars, profileVars, detailVars>>
  \/ Tick /\ UNCHANGED <<resolverVars, pageVars>>

SpecNoWallet == InitNoWallet /\ [][NextNoWallet]_vars

\* C28: without a wallet a call of refetch starts no pass and leaves the
\* list empty and loading false; a call of fetchBalance, fetchTransactions
\* or handleSend changes nothing - no state, no cache entry - and nothing
\* is ever awaited.
C28_NothingHappensWithoutWallet ==
  /\ [](publicKey = NoWallet =>
          /\ balanceFetches = <<>> /\ txFetches = <<>> /\ sendCall = NoCall
          /\ \A p \in DOMAIN passes : passes[p].stage = "idle")
  /\ [][/\ RefetchCalled =>
             /\ nfts' = <<>> /\ ~loading'
             /\ passes' = passes /\ error' = error
        /\ (\/ \E forceRefresh \in BOOLEAN :
                  FetchBalanceCalled(forceRefresh) /\ UNCHANGED <<resolverVars, pageVars>>
            \/ \E forceRefresh \in BOOLEAN :
                  FetchTransactionsCalled(forceRefresh) /\ UNCHANGED <<resolverVars, pageVars>>
            \/ HandleSendCalled /\ UNCHANGED <<resolverVars, profileVars, detailVars>>) =>
             UNCHANGED <<publicKey, resolverVars, now, localStorage, isOpen,
                         activeTab, balance, loadingBalance, transactions,
                         loadingTxs, balanceFetches, txFetches, pageVars>>]_vars

\* the list an earlier pass had left has been emptied by a call of refetch
\* without a wallet, while the sheet, open, still holds the earlier
\* wallet's balance, recipient and amount
C28_Witness ==
  /\ publicKey = NoWallet
  /\ nfts = <<>> /\ ~loading /\ error = "Failed to fetch NFTs"
  /\ isOpen /\ balance = JsNumber(2) /\ recipient = "W2" /\ amount = "1"
  /\ sendCall = NoCall /\ balanceFetches = <<>>


(***************************************************************************)
(* The action offered on a listing.                                        *)
(***************************************************************************)

\* C29: on a loaded listing no action is offered without a wallet, Cancel
\* is offered exactly to the seller and Buy exactly to a connected wallet
\* that is not the seller, never both; a purchase is only ever started by
\* a non-seller and a cancellation only by the seller.
C29_ActionFollowsConnectedWallet ==
  /\ [](Rendered =>
          /\ publicKey = NoWallet => ~BuyOffered /\ ~CancelOffered
          /\ CancelOffered <=> publicKey = listing.account.seller
          /\ BuyOffered <=> publicKey \notin {NoWallet, listing.account.seller}
          /\ ~(BuyOffered /\ CancelOffered))
  /\ [][/\ handleBuy => publicKey \notin {NoWallet, listing.account.seller}
        /\ handleCancel => publicKey = listing.account.seller]_vars

\* W1 has started a purchase of W2's listing, the wallet has become W2, and
\* W2 is offered to cancel and not to buy
C29_Witness ==
  /\ Rendered
  /\ publicKey = "W2" /\ listing.account.seller = "W2"
  /\ "buyNft" \in { chainCalls[k] : k \in DOMAIN chainCalls }
  /\ CancelOffered /\ ~BuyOffered

====
